---------------------------- MODULE Spec2Model ----------------------------
(***************************************************************************)
(* Simplified Adaptive Lighting: the time-based calculator, the manager's  *)
(* per-light corrections, and the paths that forward a light command       *)
(* (service interception, the adaptive light entities, the                 *)
(* apply_adaptive_settings service).                                       *)
(*                                                                         *)
(* Numbers.  Times are minutes since midnight of the input's date.         *)
(* Python floats are modelled in fixed point: a sun factor f is the        *)
(* integer 1000*f, a brightness factor b the integer 1000*b.  int(x) is    *)
(* truncation toward zero, as in Python.  An Optional value is a set with  *)
(* at most one element: {} is None / key absent, {v} is the value v.       *)
(***************************************************************************)
EXTENDS Integers, Sequences, FiniteSets, TLC

VARIABLES
    now,            \* the clock: datetime.now() / dt_util.now(), in minutes
    sun_times,      \* what astral's sun() yields for the date: {} when it raises
    calc,           \* TimeBasedCalculator: the global bounds of the manager
    lights,         \* AdaptiveLightingManager._lights: entity_id -> LightConfig
    factor,         \* Optional: the value _get_sun_position_factor returned
    settings,       \* Optional: the outcome of calculate_adaptive_settings
    corrected,      \* Optional: the last call of a correction helper, its result
    validation,     \* Optional: the outcome of validate_corrections_consistency
    registry,       \* hass.services: light service -> the handler registered
    original_handlers,      \* AdaptiveLightingManager._original_handlers
    interception_enabled,   \* AdaptiveLightingManager._interception_enabled
    adaptive_enabled,       \* AdaptiveLightEntity._adaptive_enabled, per target
    available,              \* AdaptiveLightEntity._available, per target
    adaptive_light,         \* the AdaptiveLight entity wrapping LightA
    received,       \* Optional: the operation last run and the command it got
    forwarded,      \* the calls that operation handed to the light platform
    updated,        \* Optional: the last async_update_settings, before and after
    switch,         \* AdaptiveLightingSwitch: _is_on and where it is in its life
    hass_data,      \* hass.data[DOMAIN]: Optional, the set of entry ids with data
    services_registered,    \* whether the integration's own services exist
    second,         \* the manager of a second config entry on the same registry
    pending         \* Optional: the intercepted command that is being processed

calcVars == <<now, sun_times, calc, lights>>

outVars == <<factor, settings, corrected, validation>>

cmdVars == <<registry, original_handlers, interception_enabled, adaptive_enabled,
             available, adaptive_light, received, forwarded>>

hostVars == <<updated, switch, hass_data, services_registered>>

regVars == <<second, pending>>

vars == <<calcVars, outVars, cmdVars, hostVars, regVars>>

-----------------------------------------------------------------------------
(* Python helpers *)

\* max(a, b) and min(a, b)
Max(a, b) == IF a >= b THEN a ELSE b

Min(a, b) == IF a <= b THEN a ELSE b

\* int(n / d) for d > 0: truncation toward zero
IntTrunc(n, d) == IF n >= 0 THEN n \div d ELSE -((-n) \div d)

\* The fixed-point unit: the value 1.0
One == 1000

\* math.pi in the fixed-point unit
PiMilli == 3142

\* One * cos(x / One) for 0 <= x <= pi/2: the series up to x^8, kept in [0, One]
CosSeries(x) ==
    LET x2 == (x * x) \div One
        x4 == (x2 * x2) \div One
        x6 == (x4 * x2) \div One
        x8 == (x6 * x2) \div One
    IN  Max(0, Min(One, One - x2 \div 2 + x4 \div 24 - x6 \div 720 + x8 \div 40320))

\* One * math.cos(p * math.pi) for the progress p = num / den >= 0
\* (cos is even, has period 2 pi, and cos(pi - x) = -cos(x))
CosPi(num, den) ==
    LET r == num % (2 * den)                        \* p mod 2
        m == IF r > den THEN 2 * den - r ELSE r     \* p in [0, 1]
    IN  IF 2 * m <= den
        THEN CosSeries((m * PiMilli) \div den)
        ELSE -CosSeries(((den - m) * PiMilli) \div den)

\* One * sin(x / One) for 0 <= x <= pi/2: the series up to x^9, kept in [0, One]
SinSeries(x) ==
    LET x2 == (x * x) \div One
        x3 == (x2 * x) \div One
        x5 == (x3 * x2) \div One
        x7 == (x5 * x2) \div One
        x9 == (x7 * x2) \div One
    IN  Max(0, Min(One, x - x3 \div 6 + x5 \div 120 - x7 \div 5040 + x9 \div 362880))

\* One * math.sin(q * math.pi) for q = num / den in [-1/2, 1/2], den > 0
\* (sin is odd)
SinPi(num, den) ==
    IF num >= 0
    THEN SinSeries((num * PiMilli) \div den)
    ELSE -SinSeries(((-num) * PiMilli) \div den)

-----------------------------------------------------------------------------
(* calculator.py: the sun position curve *)

\* timedelta(minutes=30)
transition_duration == 30

\* The except branch of _get_sun_times: 06:00, 18:00 and 12:00 of the input's
\* date, in the input's timezone
FallbackSunTimes == [sunrise |-> 6 * 60, sunset |-> 18 * 60, noon |-> 12 * 60]

\* _get_sun_times with an except branch that returns 07:00, 19:00 and 13:00
GetSunTimesLateFallback(st) ==
    IF st = {} THEN [sunrise |-> 7 * 60, sunset |-> 19 * 60, noon |-> 13 * 60]
    ELSE CHOOSE t \in st : TRUE

\* _get_sun_times: astral's times, or the fallback when astral raises
GetSunTimes(st) ==
    IF st = {} THEN FallbackSunTimes ELSE CHOOSE t \in st : TRUE

\* The sunrise branch with the factor 0.5 dropped
SunriseCurveNoHalf(dt, sunrise_start) ==
    One - CosPi(dt - sunrise_start, 2 * transition_duration)

\* The sunrise branch: 0.5 * (1 - cos(progress * pi))
SunriseCurve(dt, sunrise_start) ==
    (One - CosPi(dt - sunrise_start, 2 * transition_duration)) \div 2

\* The day branch for day_duration > 0: 0.5 + 0.5 * sin((day_progress - 0.5) * pi)
DayCurve(dt, sunrise_end, day_duration) ==
    (One + SinPi(2 * (dt - sunrise_end) - day_duration, 2 * day_duration)) \div 2

\* The sunset branch: 0.5 * (1 + cos(progress * pi))
SunsetCurve(dt, sunset_start) ==
    (One + CosPi(dt - sunset_start, 2 * transition_duration)) \div 2

\* _get_sun_position_factor with the deep-night test moved behind the three
\* windows
SunFactorAtWindowsFirst(dt, times) ==
    LET sunrise_start == times.sunrise - transition_duration
        sunrise_end   == times.sunrise + transition_duration
        sunset_start  == times.sunset - transition_duration
        sunset_end    == times.sunset + transition_duration
        day_duration  == sunset_start - sunrise_end
    IN  IF sunrise_start <= dt /\ dt < sunrise_end
        THEN SunriseCurve(dt, sunrise_start)
        ELSE IF sunrise_end <= dt /\ dt < sunset_start
             THEN IF day_duration > 0
                  THEN DayCurve(dt, sunrise_end, day_duration)
                  ELSE One
        ELSE IF sunset_start <= dt /\ dt <= sunset_end
             THEN SunsetCurve(dt, sunset_start)
        ELSE 0

\* The branch _get_sun_position_factor takes, with a daytime test that also
\* admits dt = sunset_start
SunBranchAtInclusiveDay(dt, times) ==
    LET sunrise_start == times.sunrise - transition_duration
        sunrise_end   == times.sunrise + transition_duration
        sunset_start  == times.sunset - transition_duration
        sunset_end    == times.sunset + transition_duration
        day_duration  == sunset_start - sunrise_end
    IN  IF dt < sunrise_start \/ dt > sunset_end THEN "deep_night"
        ELSE IF sunrise_start <= dt /\ dt < sunrise_end THEN "sunrise"
        ELSE IF sunrise_end <= dt /\ dt <= sunset_start
             THEN IF day_duration > 0 THEN "day" ELSE "degenerate_day"
        ELSE IF sunset_start <= dt /\ dt <= sunset_end THEN "sunset"
        ELSE "none"

\* The branch of the if / elif chain of _get_sun_position_factor that returns,
\* given the times _get_sun_times returned ("none": the return after the chain)
SunBranchAt(dt, times) ==
    LET sunrise_start == times.sunrise - transition_duration
        sunrise_end   == times.sunrise + transition_duration
        sunset_start  == times.sunset - transition_duration
        sunset_end    == times.sunset + transition_duration
        day_duration  == sunset_start - sunrise_end
    IN  IF dt < sunrise_start \/ dt > sunset_end THEN "deep_night"
        ELSE IF sunrise_start <= dt /\ dt < sunrise_end THEN "sunrise"
        ELSE IF sunrise_end <= dt /\ dt < sunset_start
             THEN IF day_duration > 0 THEN "day" ELSE "degenerate_day"
        ELSE IF sunset_start <= dt /\ dt <= sunset_end THEN "sunset"
        ELSE "none"

\* _get_sun_position_factor, given the times _get_sun_times returned: what
\* the branch taken returns
SunFactorAt(dt, times) ==
    LET sunrise_start == times.sunrise - transition_duration
        sunrise_end   == times.sunrise + transition_duration
        sunset_start  == times.sunset - transition_duration
        day_duration  == sunset_start - sunrise_end
        branch        == SunBranchAt(dt, times)
    IN  IF branch = "sunrise" THEN SunriseCurve(dt, sunrise_start)
        ELSE IF branch = "day" THEN DayCurve(dt, sunrise_end, day_duration)
        ELSE IF branch = "degenerate_day" THEN One
        ELSE IF branch = "sunset" THEN SunsetCurve(dt, sunset_start)
        ELSE 0

\* _get_sun_position_factor(dt)
SunPositionFactor(dt, st) == SunFactorAt(dt, GetSunTimes(st))

-----------------------------------------------------------------------------
(* calculator.py: brightness and color temperature *)

\* TimeBasedCalculator(hass, min_brightness, max_brightness, min_color_temp,
\* max_color_temp): the bounds of a calculator
GlobalBounds(minB, maxB, minT, maxT) ==
    [min_brightness |-> minB, max_brightness |-> maxB,
     min_color_temp |-> minT, max_color_temp |-> maxT]

\* The defaults of the constructor
DefaultBounds == GlobalBounds(1, 255, 2000, 6500)

\* get_brightness_pct(dt) * 255, in the fixed-point unit
BrightnessPct255(c, f) ==
    LET min_pct == c.min_brightness * One
        max_pct == c.max_brightness * One
        brightness_pct == min_pct + (c.max_brightness - c.min_brightness) * f
    IN  Max(min_pct, Min(max_pct, brightness_pct))

\* get_brightness_value: int(brightness_pct * 255)
GetBrightnessValue(c, f) == IntTrunc(BrightnessPct255(c, f), One)

\* get_color_temp_kelvin: int(max(min, min(max, min + (max - min) * factor)))
GetColorTempKelvin(c, f) ==
    LET color_temp == c.min_color_temp * One
                        + (c.max_color_temp - c.min_color_temp) * f
    IN  IntTrunc(Max(c.min_color_temp * One,
                     Min(c.max_color_temp * One, color_temp)), One)

\* round(brightness * brightness_factor), halves to the even neighbour as
\* Python's round(), clamped to 1..255
ApplyBrightnessFactorRounded(brightness, brightness_factor) ==
    LET n == brightness * brightness_factor
        q == n \div One
        r == n % One
        rounded == IF 2 * r > One \/ (2 * r = One /\ q % 2 = 1) THEN q + 1 ELSE q
    IN  Max(1, Min(255, rounded))

\* The white balance correction clamped before the offset is added
ApplyWhiteBalanceCorrectionClampFirst(c, color_temp, white_balance_offset) ==
    Max(c.min_color_temp, Min(c.max_color_temp, color_temp)) + white_balance_offset

\* TimeBasedCalculator.apply_white_balance_correction(color_temp, offset)
ApplyWhiteBalanceCorrection(c, color_temp, white_balance_offset) ==
    LET corrected_temp == color_temp + white_balance_offset
    IN  Max(c.min_color_temp, Min(c.max_color_temp, corrected_temp))

\* TimeBasedCalculator.apply_brightness_factor(brightness, brightness_factor)
ApplyBrightnessFactor(brightness, brightness_factor) ==
    LET corrected_brightness == IntTrunc(brightness * brightness_factor, One)
    IN  Max(1, Min(255, corrected_brightness))

\* TimeBasedCalculator.get_adaptive_settings(dt, white_balance_offset,
\* brightness_factor), for the sun factor f of dt
GetAdaptiveSettings(c, f, white_balance_offset, brightness_factor) ==
    LET base_brightness == GetBrightnessValue(c, f)
        base_color_temp == GetColorTempKelvin(c, f)
    IN  [brightness |-> ApplyBrightnessFactor(base_brightness, brightness_factor),
         color_temp_kelvin |->
             ApplyWhiteBalanceCorrection(c, base_color_temp,
                                         white_balance_offset)]

-----------------------------------------------------------------------------
(* models.py and manager.py: per-light corrections *)

LightA == "light.living_room"

LightB == "light.bedroom"

LightC == "light.kitchen"

\* Every light id a command may name; LightC is never configured
LightIds == {LightA, LightB, LightC}

\* LightConfig; brightness_factor is Optional: {} is a stored null
LightConfig(minT, maxT, wb, bf, en) ==
    [min_color_temp |-> minT, max_color_temp |-> maxT,
     white_balance_offset |-> wb, brightness_factor |-> bf, enabled |-> en]

\* AdaptiveLightingManager.configured_lights
ConfiguredLights == DOMAIN lights

\* apply_brightness_correction raises (int * None) for a null brightness_factor
CorrectionRaises(entity_id) ==
    /\ entity_id \in ConfiguredLights
    /\ lights[entity_id].brightness_factor = {}

\* apply_brightness_correction with the final clamp left out
ApplyBrightnessCorrectionNoClamp(entity_id, base_brightness) ==
    IF entity_id \notin ConfiguredLights THEN base_brightness
    ELSE LET bf == CHOOSE b \in lights[entity_id].brightness_factor : TRUE
         IN  IntTrunc(base_brightness * bf, One)

\* AdaptiveLightingManager.apply_brightness_correction
ApplyBrightnessCorrection(entity_id, base_brightness) ==
    IF entity_id \notin ConfiguredLights THEN base_brightness
    ELSE LET bf == CHOOSE b \in lights[entity_id].brightness_factor : TRUE
             corrected_brightness == IntTrunc(base_brightness * bf, One)
         IN  Max(1, Min(255, corrected_brightness))

\* AdaptiveLightingManager.apply_white_balance
ApplyWhiteBalance(entity_id, base_color_temp) ==
    IF entity_id \notin ConfiguredLights THEN base_color_temp
    ELSE LET corrected_temp == base_color_temp
                                 + lights[entity_id].white_balance_offset
             min_temp == calc.min_color_temp
             max_temp == calc.max_color_temp
         IN  Max(min_temp, Min(max_temp, corrected_temp))

\* AdaptiveSettings(brightness, color_temp_kelvin, transition=1)
AdaptiveSettings(b, k) ==
    [brightness |-> b, color_temp_kelvin |-> k, transition |-> 1]

\* calculate_adaptive_settings without the per-light corrections
CalculateAdaptiveSettingsUncorrected(entity_id) ==
    LET f == SunPositionFactor(now, sun_times)
    IN  AdaptiveSettings(GetBrightnessValue(calc, f), GetColorTempKelvin(calc, f))

\* AdaptiveLightingManager.calculate_adaptive_settings(entity_id), when it returns
CalculateAdaptiveSettings(entity_id) ==
    LET f == SunPositionFactor(now, sun_times)
        base_brightness == GetBrightnessValue(calc, f)
        base_color_temp == GetColorTempKelvin(calc, f)
    IN  AdaptiveSettings(ApplyBrightnessCorrection(entity_id, base_brightness),
                         ApplyWhiteBalance(entity_id, base_color_temp))

\* get_light_corrections that reports an absent light as enabled
GetLightCorrectionsAbsentEnabled(entity_id) ==
    IF entity_id \notin ConfiguredLights
    THEN [white_balance_offset |-> 0, brightness_factor |-> {One},
          enabled |-> TRUE]
    ELSE [white_balance_offset |-> lights[entity_id].white_balance_offset,
          brightness_factor |-> lights[entity_id].brightness_factor,
          enabled |-> lights[entity_id].enabled]

\* AdaptiveLightingManager.get_light_corrections(entity_id)
GetLightCorrections(entity_id) ==
    IF entity_id \notin ConfiguredLights
    THEN [white_balance_offset |-> 0, brightness_factor |-> {One},
          enabled |-> FALSE]
    ELSE [white_balance_offset |-> lights[entity_id].white_balance_offset,
          brightness_factor |-> lights[entity_id].brightness_factor,
          enabled |-> lights[entity_id].enabled]

-----------------------------------------------------------------------------
(* manager.py: validate_corrections_consistency *)

\* self._lights.items(): the configured lights in the order of the configuration
LightOrder ==
    LET Test(e) == e \in ConfiguredLights
    IN  SelectSeq(<<LightA, LightB, LightC>>, Test)

\* What the loop body does for one light: it logs a warning and returns False
\* ("reported"), raises on comparing a null brightness_factor, or goes on
LightVerdict(entity_id) ==
    LET light_config == lights[entity_id]
    IN  IF ~(-1000 <= light_config.white_balance_offset
             /\ light_config.white_balance_offset <= 1000)
        THEN "reported"
        ELSE IF light_config.brightness_factor = {} THEN "raises"
        ELSE IF \E bf \in light_config.brightness_factor :
                   ~(100 <= bf /\ bf <= 2000)
        THEN "reported"
        ELSE "ok"

\* The positions of the loop at which it ends
EndingPositions ==
    {i \in 1..Len(LightOrder) : LightVerdict(LightOrder[i]) # "ok"}

\* validate_corrections_consistency: the value returned (none when it raises)
\* and the lights a warning was logged for
ValidateCorrectionsConsistency ==
    IF EndingPositions = {}
    THEN [valid |-> {TRUE}, reported |-> {}, raised |-> FALSE]
    ELSE LET first == CHOOSE i \in EndingPositions :
                          \A j \in EndingPositions : i <= j
         IN  IF LightVerdict(LightOrder[first]) = "raises"
             THEN [valid |-> {}, reported |-> {}, raised |-> TRUE]
             ELSE [valid |-> {FALSE}, reported |-> {LightOrder[first]},
                   raised |-> FALSE]

-----------------------------------------------------------------------------
(* manager.py: service call interception *)

\* The elements of a sequence
Range(seq) == {seq[i] : i \in 1..Len(seq)}

\* A ServiceCall on the light domain: the service, the entity_id list of its
\* data (a single id is a list of one, a missing entity_id the empty list) and
\* the other keys of its data, each Optional
ServiceCall(service, entity_id, data) ==
    [service |-> service, entity_id |-> entity_id, data |-> data]

CallData(b, k, ctk, t) ==
    [brightness |-> b, kelvin |-> k, color_temp_kelvin |-> ctk, transition |-> t]

\* data.update(adaptive_settings.to_service_data()): the keys brightness,
\* kelvin and transition are set, whatever the data held
UpdateWithSettings(data, s) ==
    [data EXCEPT !.brightness = {s.brightness},
                 !.kelvin = {s.color_temp_kelvin},
                 !.transition = {s.transition}]

\* eid in self._lights and self._lights[eid].enabled
IsAdaptive(eid) == eid \in ConfiguredLights /\ lights[eid].enabled

\* adaptive_entities of async_intercept_service_call
AdaptiveEntities(call) ==
    LET Test(eid) == IsAdaptive(eid) IN SelectSeq(call.entity_id, Test)

\* non_adaptive_entities of async_intercept_service_call
NonAdaptiveEntities(call) ==
    LET Test(eid) == eid \notin Range(AdaptiveEntities(call))
    IN  SelectSeq(call.entity_id, Test)

\* The positions in adaptive_entities whose computation raises
FailingPositions(call) ==
    {i \in 1..Len(AdaptiveEntities(call)) :
        CorrectionRaises(AdaptiveEntities(call)[i])}

\* Whether async_intercept_service_call reaches its except branch
InterceptRaises(call) ==
    /\ call.service \in DOMAIN original_handlers
    /\ FailingPositions(call) # {}

\* An except branch that only logs the error
ExceptFallbackOnlyLogs(call) == <<>>

\* The except branch: the original call goes to the original handler, if stored
ExceptFallback(call) ==
    IF call.service \in DOMAIN original_handlers THEN <<call>> ELSE <<>>

\* The single-entity branch: the call data itself is updated
SingleAdaptiveCall(call) ==
    IF CorrectionRaises(call.entity_id[1])
    THEN ExceptFallback(call)
    ELSE <<ServiceCall(call.service, call.entity_id,
             UpdateWithSettings(call.data,
                                CalculateAdaptiveSettings(call.entity_id[1])))>>

\* The call made for the non-adaptive entities, with the original data
NonAdaptiveCall(call) ==
    IF NonAdaptiveEntities(call) # <<>>
    THEN <<ServiceCall(call.service, NonAdaptiveEntities(call), call.data)>>
    ELSE <<>>

\* The call made for one adaptive entity of a multi-entity command
AdaptiveCall(call, entity_id) ==
    ServiceCall(call.service, <<entity_id>>,
                UpdateWithSettings(call.data, CalculateAdaptiveSettings(entity_id)))

\* A multi-entity branch that makes one call for all adaptive entities, with
\* the settings of the first
SplitCallsMerged(call) ==
    IF FailingPositions(call) # {} THEN ExceptFallback(call)
    ELSE NonAdaptiveCall(call)
         \o <<ServiceCall(call.service, AdaptiveEntities(call),
                 UpdateWithSettings(call.data,
                     CalculateAdaptiveSettings(AdaptiveEntities(call)[1])))>>

\* The multi-entity branch: the non-adaptive call, then one call per adaptive
\* entity in order; the first computation that raises ends the loop and the
\* except branch runs
SplitCalls(call) ==
    LET adaptive == AdaptiveEntities(call)
        failing == FailingPositions(call)
        done == IF failing = {} THEN Len(adaptive)
                ELSE (CHOOSE i \in failing : \A j \in failing : i <= j) - 1
    IN  NonAdaptiveCall(call)
        \o [i \in 1..done |-> AdaptiveCall(call, adaptive[i])]
        \o (IF failing = {} THEN <<>> ELSE ExceptFallback(call))

\* async_intercept_service_call: the calls handed to the original handler
InterceptServiceCall(call) ==
    IF call.service \notin DOMAIN original_handlers THEN <<>>
    ELSE IF AdaptiveEntities(call) = <<>> THEN <<call>>
    ELSE IF Len(call.entity_id) = 1
            /\ call.entity_id[1] \in Range(AdaptiveEntities(call))
         THEN SingleAdaptiveCall(call)
    ELSE SplitCalls(call)

\* hass.services.async_call("light", ...): the registered handler runs; the
\* result is the calls that reach the light platform's own handler
AsyncCall(call) ==
    IF call.service \in DOMAIN registry /\ registry[call.service] = "interceptor"
    THEN InterceptServiceCall(call)
    ELSE <<call>>

\* Whether the call is processed by the interceptor and its computation raises
CallRaises(call) ==
    registry[call.service] = "interceptor" /\ InterceptRaises(call)

-----------------------------------------------------------------------------
(* light.py: AdaptiveLightEntity *)

\* _should_skip_adaptive_settings (ATTR_KELVIN is the only color key of the
\* two it tests that the model's data carries)
ShouldSkipAdaptiveSettings(target, kwargs) ==
    \/ ~adaptive_enabled[target]
    \/ kwargs.brightness # {}
    \/ kwargs.kelvin # {}

\* Whether async_turn_on computes settings and the computation raises
EntityComputeRaises(target, kwargs) ==
    /\ available[target]
    /\ ~ShouldSkipAdaptiveSettings(target, kwargs)
    /\ CorrectionRaises(target)

\* adaptive_kwargs of async_turn_on
AdaptiveKwargs(target, kwargs) ==
    IF ShouldSkipAdaptiveSettings(target, kwargs) \/ CorrectionRaises(target)
    THEN kwargs
    ELSE LET s == CalculateAdaptiveSettings(target)
         IN  [kwargs EXCEPT
                !.brightness = IF kwargs.brightness = {} THEN {s.brightness} ELSE @,
                !.kelvin = IF kwargs.kelvin = {} THEN {s.color_temp_kelvin} ELSE @,
                !.transition = IF kwargs.transition = {} THEN {s.transition} ELSE @]

\* AdaptiveLightEntity.async_turn_on: the calls that reach the light platform
EntityTurnOnCalls(target, kwargs) ==
    IF ~available[target] THEN <<>>
    ELSE AsyncCall(ServiceCall("light.turn_on", <<target>>,
                               AdaptiveKwargs(target, kwargs)))

-----------------------------------------------------------------------------
(* adaptive_light.py: AdaptiveLight *)

\* The light the AdaptiveLight entity wraps
AdaptiveLightTarget == LightA

\* AdaptiveLight.__init__: off, brightness 255, 3000 K, the given corrections
AdaptiveLightInit(white_balance_offset, brightness_factor) ==
    [is_on |-> FALSE, brightness |-> 255, color_temp |-> 3000,
     white_balance_offset |-> white_balance_offset,
     brightness_factor |-> brightness_factor]

\* corrected_brightness of async_turn_on:
\* max(1, min(255, int(get_brightness_pct(now) * brightness_factor * 255 / 100)))
\* with the entity's own calculator, which has the default bounds
AdaptiveLightBrightness(al, f) ==
    LET pct255 == BrightnessPct255(DefaultBounds, f)
        high == pct255 * (al.brightness_factor \div 100)
        low == (pct255 * (al.brightness_factor % 100)) \div 100
    IN  Max(1, Min(255, IntTrunc(high + low, One * One)))

\* corrected_color_temp of async_turn_on: the offset added, kept in 2000..6500
AdaptiveLightColorTemp(al, f) ==
    Max(2000, Min(6500, GetColorTempKelvin(DefaultBounds, f)
                          + al.white_balance_offset))

\* final_brightness, final_color_temp and transition of async_turn_on
AdaptiveLightFinal(al, kwargs) ==
    LET f == SunPositionFactor(now, sun_times)
    IN  [brightness |-> IF kwargs.brightness # {} THEN kwargs.brightness
                        ELSE {AdaptiveLightBrightness(al, f)},
         color_temp |-> IF kwargs.color_temp_kelvin # {}
                        THEN kwargs.color_temp_kelvin
                        ELSE {AdaptiveLightColorTemp(al, f)},
         transition |-> IF kwargs.transition # {} THEN kwargs.transition ELSE {1}]

\* _control_target_light(turn_on=True, ...): the light.turn_on call
ControlTargetLightOn(final) ==
    ServiceCall("light.turn_on", <<AdaptiveLightTarget>>,
                CallData(final.brightness, {}, final.color_temp, final.transition))

\* _control_target_light(turn_on=False, ...): the light.turn_off call
ControlTargetLightOff(transition) ==
    ServiceCall("light.turn_off", <<AdaptiveLightTarget>>,
                CallData({}, {}, {}, transition))

-----------------------------------------------------------------------------
(* __init__.py: the apply_adaptive_settings service *)

\* The lights the service walks: the given list, or all configured lights
\* (in the order of the configuration)
ServiceLights(lights_arg) ==
    IF lights_arg # <<>> THEN lights_arg
    ELSE LET Test(e) == e \in ConfiguredLights
         IN  SelectSeq(<<LightA, LightB>>, Test)

\* The configured lights among them, in order
ServiceTargets(lights_arg) ==
    LET Test(e) == e \in ConfiguredLights
    IN  SelectSeq(ServiceLights(lights_arg), Test)

\* The call the service makes for one light: entity_id and transition, updated
\* with the computed settings
ServiceLightCall(light_entity_id, transition) ==
    ServiceCall("light.turn_on", <<light_entity_id>>,
        UpdateWithSettings(CallData({}, {}, {}, {transition}),
                           CalculateAdaptiveSettings(light_entity_id)))

\* The positions of the walk at which calculate_adaptive_settings raises
ServiceFailing(lights_arg) ==
    {i \in 1..Len(ServiceTargets(lights_arg)) :
        CorrectionRaises(ServiceTargets(lights_arg)[i])}

\* The calls handed to hass.services.async_call by the walk: it ends at the
\* first computation that raises (the exception leaves the service)
ServiceWalk(lights_arg, transition) ==
    LET targets == ServiceTargets(lights_arg)
        failing == ServiceFailing(lights_arg)
        done == IF failing = {} THEN Len(targets)
                ELSE (CHOOSE i \in failing : \A j \in failing : i <= j) - 1
    IN  [i \in 1..done |-> ServiceLightCall(targets[i], transition)]

\* The concatenation of what each of the calls yields once dispatched
RECURSIVE AsyncCallAll(_)
AsyncCallAll(calls) ==
    IF calls = <<>> THEN <<>>
    ELSE AsyncCall(Head(calls)) \o AsyncCallAll(Tail(calls))

\* async_apply_adaptive_settings: the calls that reach the light platform
ApplyAdaptiveSettingsCalls(lights_arg, transition) ==
    AsyncCallAll(ServiceWalk(lights_arg, transition))

-----------------------------------------------------------------------------
(* __init__.py: the test_white_balance service *)

\* service_data of async_test_white_balance: the computed color temperature
\* plus the offset under color_temp_kelvin, the given brightness or the
\* computed one, the given transition or 1
TestWhiteBalanceCall(target, white_balance_offset, brightness, transition) ==
    LET adaptive_settings == CalculateAdaptiveSettings(target)
    IN  ServiceCall("light.turn_on", <<target>>,
            CallData(IF brightness # {} THEN brightness
                     ELSE {adaptive_settings.brightness},
                     {},
                     {adaptive_settings.color_temp_kelvin + white_balance_offset},
                     IF transition # {} THEN transition ELSE {1}))

\* async_test_white_balance: the calls that reach the light platform; a
\* computation that raises leaves the service as a ServiceValidationError
TestWhiteBalanceCalls(target, white_balance_offset, brightness, transition) ==
    IF CorrectionRaises(target) THEN <<>>
    ELSE AsyncCall(TestWhiteBalanceCall(target, white_balance_offset,
                                        brightness, transition))

-----------------------------------------------------------------------------
(* The inputs the specifications draw from *)

\* The last minute of the day a computation is asked for
LastMinute == 1439

\* Sunrise and sunset times of the date, as astral may return them: ordinary
\* days, days whose transition windows touch or overlap, and a sunset that
\* precedes the sunrise (the times are re-stamped with the input's timezone)
SunriseTimes == {330, 360, 720}

SunsetTimes == {600, 700, 750, 780, 1080, 1200}

SunCases ==
    {{}} \cup {{[sunrise |-> r, sunset |-> s, noon |-> (r + s) \div 2]} :
                    r \in SunriseTimes, s \in SunsetTimes}

\* The times of day the correction and command specifications compute at
CalcTimes == {0, 345, 360, 389, 390, 540, 720, 1049, 1050, 1080}

\* The calculator's bounds in the tests' fixture
FixtureBounds == GlobalBounds(10, 255, 2000, 6500)

GlobalBoundsSet ==
    {GlobalBounds(b[1], b[2], t[1], t[2]) :
        b \in {<<1, 255>>, <<10, 255>>, <<50, 200>>, <<1, 1>>},
        t \in {<<2000, 6500>>, <<2700, 5000>>}}

\* The tests' fixture: living room +100 K x0.8, bedroom -50 K x1.2
FixtureLights ==
    (LightA :> LightConfig(2000, 6500, 100, {800}, TRUE))
    @@ (LightB :> LightConfig(2000, 6500, -50, {1200}, TRUE))

\* Light tables for the corrections: LightA ranges over bounds, offsets
\* (including +/-5000) and factors (0.001, 0.8, 1.2, 10.0, null)
CorrectionTables ==
    {(LightA :> LightConfig(t[1], t[2], wb, bf, TRUE))
     @@ (LightB :> LightConfig(2000, 6500, -50, {1200}, TRUE)) :
        t \in {<<2000, 6500>>, <<2700, 4000>>, <<1000, 10000>>},
        wb \in {-5000, -50, 100, 5000},
        bf \in {{1}, {800}, {1200}, {10000}, {}}}

Services == {"light.turn_on", "light.toggle"}

\* services._services["light"][...]: the light platform's own handler of a
\* service, before anything is intercepted
LightPlatformHandler(s) ==
    IF s = "light.turn_on" THEN "platform_turn_on" ELSE "platform_toggle"

\* The manager's interception state: the registry it works on, the handlers
\* it has stored, its flag
ManagerState ==
    [registry |-> registry, original_handlers |-> original_handlers,
     interception_enabled |-> interception_enabled]

\* An enable_interception that registers the interceptors and stores nothing
EnableInterceptionStoresNothing(m, fails) ==
    IF m.interception_enabled \/ fails THEN m
    ELSE [registry |-> [s \in Services |-> "interceptor"],
          original_handlers |-> m.original_handlers,
          interception_enabled |-> TRUE]

\* self._original_handlers[s] = h
StoreHandler(handlers, s, h) ==
    [k \in DOMAIN handlers \cup {s} |-> IF k = s THEN h ELSE handlers[k]]

\* No registry operation of enable_interception raises
NoFailure == [service |-> "none", step |-> "none"]

\* Where enable_interception can raise: for either service, reading the
\* registered handler to store it, async_remove, or async_register
FailurePoints ==
    [service : Services, step : {"store", "remove", "register"}]

\* One "if services.has_service(...)" block of enable_interception for the
\* service s, by the manager whose interceptor is self.  step: the operation
\* of the block that raises ("none": the block completes)
SwapHandler(m, s, self, step) ==
    IF m.registry[s] = "absent" \/ step = "store" THEN m
    ELSE IF step = "remove"
    THEN [m EXCEPT !.original_handlers = StoreHandler(@, s, m.registry[s])]
    ELSE [m EXCEPT !.original_handlers = StoreHandler(@, s, m.registry[s]),
                   !.registry[s] = IF step = "register" THEN "absent" ELSE self]

\* Whether the failure is met: the block of a service that is not registered
\* is skipped
FailureMet(m, failure) ==
    /\ failure # NoFailure
    /\ m.registry[failure.service] # "absent"

\* AdaptiveLightingManager.enable_interception on the state m, by the manager
\* whose interceptor is self: the block of light.turn_on, then that of
\* light.toggle, then the flag.  When an operation raises, the except branch
\* logs and calls disable_interception, which returns at once because the
\* flag is still False
EnableInterceptionAt(m, self, failure) ==
    IF m.interception_enabled THEN m
    ELSE IF FailureMet(m, failure) /\ failure.service = "light.turn_on"
    THEN SwapHandler(m, "light.turn_on", self, failure.step)
    ELSE LET turn_on == SwapHandler(m, "light.turn_on", self, "none")
         IN  IF FailureMet(m, failure)
             THEN SwapHandler(turn_on, "light.toggle", self, failure.step)
             ELSE [SwapHandler(turn_on, "light.toggle", self, "none")
                      EXCEPT !.interception_enabled = TRUE]

\* enable_interception of the manager whose interceptor is "interceptor".
\* fails: reading the registered light.turn_on handler raises
EnableInterceptionResult(m, fails) ==
    EnableInterceptionAt(m, "interceptor",
        IF fails THEN [service |-> "light.turn_on", step |-> "store"]
        ELSE NoFailure)

\* A disable_interception that forgets the stored handlers and leaves the
\* interceptors registered
DisableInterceptionClearsOnly(m, fails) ==
    IF ~m.interception_enabled \/ fails THEN m
    ELSE [registry |-> m.registry, original_handlers |-> <<>>,
          interception_enabled |-> FALSE]

\* AdaptiveLightingManager.disable_interception on the state m.  fails: the
\* first async_remove raises; the except branch logs
DisableInterceptionResult(m, fails) ==
    IF ~m.interception_enabled \/ fails THEN m
    ELSE [registry |-> [s \in Services |->
                          IF s \in DOMAIN m.original_handlers
                          THEN m.original_handlers[s]
                          ELSE m.registry[s]],
          original_handlers |-> <<>>,
          interception_enabled |-> FALSE]

\* The manager's state after the step is m
ManagerBecomes(m) ==
    /\ registry' = m.registry
    /\ original_handlers' = m.original_handlers
    /\ interception_enabled' = m.interception_enabled

\* No settings of an AdaptiveLight updated, the switch as constructed (off),
\* no config entry set up, no second manager intercepting, no intercepted
\* command in progress
HostIdle ==
    /\ updated = {}
    /\ switch = [is_on |-> FALSE, stage |-> "constructed"]
    /\ hass_data = {}
    /\ services_registered = FALSE
    /\ second = [original_handlers |-> <<>>, interception_enabled |-> FALSE]
    /\ pending = {}

\* Nothing intercepted, no entity touched, no command processed
CmdIdle ==
    /\ registry = [s \in Services |-> LightPlatformHandler(s)]
    /\ original_handlers = <<>>
    /\ interception_enabled = FALSE
    /\ adaptive_enabled = [e \in {LightA, LightB} |-> TRUE]
    /\ available = [e \in {LightA, LightB} |-> TRUE]
    /\ adaptive_light = AdaptiveLightInit(0, One)
    /\ received = {}
    /\ forwarded = <<>>

-----------------------------------------------------------------------------
(* SpecSun: _get_sun_position_factor over every minute and every sun case *)

\* The calculator's bounds the sun curve is turned into base values with
SunBounds == {DefaultBounds, FixtureBounds, GlobalBounds(50, 200, 2700, 5000)}

InitSun ==
    /\ now \in 0..LastMinute
    /\ sun_times \in SunCases
    /\ calc \in SunBounds
    /\ lights = FixtureLights
    /\ factor = {}
    /\ settings = {}
    /\ corrected = {}
    /\ validation = {}
    /\ CmdIdle
    /\ HostIdle

\* A call of _get_sun_position_factor(now)
GetSunPositionFactor ==
    /\ factor = {}
    /\ factor' = {SunPositionFactor(now, sun_times)}
    /\ UNCHANGED <<regVars, hostVars, calcVars, settings, corrected, validation, cmdVars>>

NextSun == GetSunPositionFactor

SpecSun == InitSun /\ [][NextSun]_vars

-----------------------------------------------------------------------------
(* SpecCalc: calculate_adaptive_settings over bounds, corrections and times *)

InitCalc ==
    /\ now \in CalcTimes
    /\ sun_times \in {{}, {[sunrise |-> 330, sunset |-> 1200, noon |-> 765]}}
    /\ calc \in GlobalBoundsSet
    /\ lights \in CorrectionTables
    /\ factor = {}
    /\ settings = {}
    /\ corrected = {}
    /\ validation = {}
    /\ CmdIdle
    /\ HostIdle

\* A call of calculate_adaptive_settings(entity_id): it returns a value, or
\* raises out of apply_brightness_correction
Calculate(entity_id) ==
    /\ settings = {}
    /\ settings' = {[entity_id |-> entity_id,
                     value |-> IF CorrectionRaises(entity_id) THEN {}
                               ELSE {CalculateAdaptiveSettings(entity_id)}]}
    /\ UNCHANGED <<regVars, hostVars, calcVars, factor, corrected, validation, cmdVars>>

\* A call of get_light_corrections(entity_id)
CallGetLightCorrections(entity_id) ==
    /\ corrected = {}
    /\ corrected' = {[fn |-> "get_light_corrections", entity_id |-> {entity_id},
                      value |-> {GetLightCorrections(entity_id)}]}
    /\ UNCHANGED <<regVars, hostVars, calcVars, factor, settings, validation, cmdVars>>

NextCalc ==
    \/ \E e \in LightIds : Calculate(e)
    \/ \E e \in LightIds : CallGetLightCorrections(e)

SpecCalc == InitCalc /\ [][NextCalc]_vars

-----------------------------------------------------------------------------
(* SpecCorr: the correction helpers of the calculator and the manager *)

\* The base color temperatures, offsets and brightness factors (0.001 to 10.0)
\* the helpers are called with
BaseColorTemps == {2000, 2100, 3000, 4000, 6400, 6450, 6500, 9950}

Offsets == {-5000, -500, -300, -50, 0, 100, 500, 5000}

Factors == {1, 100, 500, 800, One, 1200, 1500, 2000, 10000}

\* The base brightness values the helpers are called with
BaseBrightnesses == 1..255

\* Light tables for the helpers of the manager: the living room with each of
\* six corrections, one of them with a null brightness_factor
HelperTables ==
    {(LightA :> LightConfig(2000, 6500, p[1], p[2], TRUE))
     @@ (LightB :> LightConfig(2000, 6500, -50, {1200}, TRUE)) :
        p \in {<<-5000, {1}>>, <<100, {800}>>, <<5000, {10000}>>,
               <<0, {One}>>, <<-50, {100}>>, <<0, {}>>}}

InitCorr ==
    /\ now = 0
    /\ sun_times = {}
    /\ calc \in SunBounds
    /\ lights \in HelperTables
    /\ factor = {}
    /\ settings = {}
    /\ corrected = {}
    /\ validation = {}
    /\ CmdIdle
    /\ HostIdle

\* A call of TimeBasedCalculator.apply_white_balance_correction
CallApplyWhiteBalanceCorrection(color_temp, white_balance_offset) ==
    /\ corrected = {}
    /\ corrected' =
          {[fn |-> "apply_white_balance_correction", entity_id |-> {},
            base |-> color_temp, correction |-> {white_balance_offset},
            value |-> {ApplyWhiteBalanceCorrection(calc, color_temp,
                                                   white_balance_offset)}]}
    /\ UNCHANGED <<regVars, hostVars, calcVars, factor, settings, validation, cmdVars>>

\* A call of TimeBasedCalculator.apply_brightness_factor
CallApplyBrightnessFactor(brightness, brightness_factor) ==
    /\ corrected = {}
    /\ corrected' =
          {[fn |-> "apply_brightness_factor", entity_id |-> {},
            base |-> brightness, correction |-> {brightness_factor},
            value |-> {ApplyBrightnessFactor(brightness, brightness_factor)}]}
    /\ UNCHANGED <<regVars, hostVars, calcVars, factor, settings, validation, cmdVars>>

\* A call of AdaptiveLightingManager.apply_white_balance
CallApplyWhiteBalance(entity_id, base_color_temp) ==
    /\ corrected = {}
    /\ corrected' =
          {[fn |-> "apply_white_balance", entity_id |-> {entity_id},
            base |-> base_color_temp,
            correction |-> IF entity_id \in ConfiguredLights
                           THEN {lights[entity_id].white_balance_offset}
                           ELSE {},
            value |-> {ApplyWhiteBalance(entity_id, base_color_temp)}]}
    /\ UNCHANGED <<regVars, hostVars, calcVars, factor, settings, validation, cmdVars>>

\* A call of AdaptiveLightingManager.apply_brightness_correction: it returns a
\* value, or raises for a null brightness_factor
CallApplyBrightnessCorrection(entity_id, base_brightness) ==
    /\ corrected = {}
    /\ corrected' =
          {[fn |-> "apply_brightness_correction", entity_id |-> {entity_id},
            base |-> base_brightness,
            correction |-> IF entity_id \in ConfiguredLights
                           THEN lights[entity_id].brightness_factor
                           ELSE {},
            value |-> IF CorrectionRaises(entity_id) THEN {}
                      ELSE {ApplyBrightnessCorrection(entity_id,
                                                      base_brightness)}]}
    /\ UNCHANGED <<regVars, hostVars, calcVars, factor, settings, validation, cmdVars>>

NextCorr ==
    \/ \E t \in BaseColorTemps, o \in Offsets :
            CallApplyWhiteBalanceCorrection(t, o)
    \/ \E b \in BaseBrightnesses, bf \in Factors : CallApplyBrightnessFactor(b, bf)
    \/ \E e \in LightIds, t \in BaseColorTemps : CallApplyWhiteBalance(e, t)
    \/ \E e \in LightIds, b \in BaseBrightnesses :
            CallApplyBrightnessCorrection(e, b)

SpecCorr == InitCorr /\ [][NextCorr]_vars

-----------------------------------------------------------------------------
(* SpecIdem: calculate_adaptive_settings called again and again *)

\* The number of calculate_adaptive_settings calls of a behaviour
MaxCalls == 3

InitIdem ==
    /\ now \in CalcTimes
    /\ sun_times \in {{}, {[sunrise |-> 330, sunset |-> 1200, noon |-> 765]}}
    /\ calc \in SunBounds
    /\ lights \in HelperTables
    /\ factor = {}
    /\ settings = {}
    /\ corrected = {}
    /\ validation = {}
    /\ CmdIdle
    /\ HostIdle

\* The outcome of calculate_adaptive_settings(entity_id): the value returned,
\* or none when it raises
CalculateOutcome(entity_id) ==
    IF CorrectionRaises(entity_id) THEN {}
    ELSE {CalculateAdaptiveSettings(entity_id)}

\* A call whose result drifts with the number of calls made before it
RecalculateDrifting(entity_id) ==
    /\ Cardinality(settings) < MaxCalls
    /\ settings' = settings \cup
          {[entity_id |-> entity_id, call |-> Cardinality(settings) + 1,
            value |-> {[v EXCEPT !.color_temp_kelvin = @ + Cardinality(settings)] :
                          v \in CalculateOutcome(entity_id)}]}
    /\ UNCHANGED <<regVars, hostVars, calcVars, factor, corrected, validation, cmdVars>>

\* A call that writes the offset it applied back as consumed
RecalculateConsuming(entity_id) ==
    /\ Cardinality(settings) < MaxCalls
    /\ settings' = settings \cup
          {[entity_id |-> entity_id, call |-> Cardinality(settings) + 1,
            value |-> CalculateOutcome(entity_id)]}
    /\ lights' = [e \in DOMAIN lights |->
                    IF e = entity_id
                    THEN [lights[e] EXCEPT !.white_balance_offset = 0]
                    ELSE lights[e]]
    /\ UNCHANGED <<regVars, hostVars, now, sun_times, calc, factor, corrected, validation, cmdVars>>

\* One more call of calculate_adaptive_settings(entity_id) at the same
\* timestamp; the outcome of every call is kept, with its position
Recalculate(entity_id) ==
    /\ Cardinality(settings) < MaxCalls
    /\ settings' = settings \cup
          {[entity_id |-> entity_id, call |-> Cardinality(settings) + 1,
            value |-> CalculateOutcome(entity_id)]}
    /\ UNCHANGED <<regVars, hostVars, calcVars, factor, corrected, validation, cmdVars>>

NextIdem ==
    \/ \E e \in LightIds : Recalculate(e)
    \/ GetSunPositionFactor

SpecIdem == InitIdem /\ [][NextIdem]_vars

-----------------------------------------------------------------------------
(* SpecValid: validate_corrections_consistency over light tables *)

\* The color temperature bounds, offsets and brightness factors of the tables
\* validated: in range, reversed, equal, outside 1000..10000; offsets beyond
\* +/-1000; factors 0, negative, below 0.1, above 2.0, null
ValidatedBounds ==
    {<<2000, 6500>>, <<6500, 2000>>, <<3000, 3000>>, <<500, 6500>>, <<2000, 12000>>}

ValidatedOffsets == {0, 2000, -1500}

ValidatedFactors == {{One}, {5000}, {0}, {-500}, {50}, {}}

ValidatedTables ==
    {(LightA :> LightConfig(ta[1], ta[2], wa, fa, TRUE))
     @@ (LightB :> LightConfig(tb[1], tb[2], wb, fb, TRUE)) :
        ta \in ValidatedBounds, wa \in ValidatedOffsets, fa \in ValidatedFactors,
        tb \in {<<2000, 6500>>, <<3000, 3000>>}, wb \in ValidatedOffsets,
        fb \in {{One}, {5000}, {}}}

InitValid ==
    /\ now = 0
    /\ sun_times = {}
    /\ calc = DefaultBounds
    /\ lights \in ValidatedTables
    /\ factor = {}
    /\ settings = {}
    /\ corrected = {}
    /\ validation = {}
    /\ CmdIdle
    /\ HostIdle

\* A call of AdaptiveLightingManager.validate_corrections_consistency
Validate ==
    /\ validation = {}
    /\ validation' = {ValidateCorrectionsConsistency}
    /\ UNCHANGED <<regVars, hostVars, calcVars, factor, settings, corrected, cmdVars>>

NextValid == Validate

SpecValid == InitValid /\ [][NextValid]_vars

-----------------------------------------------------------------------------
(* SpecCmd: commands through the registry, the light entities and the service *)

\* The longest entity_id list of a command
MaxTargets == 3

\* The entity_id lists of a command: lists of distinct light ids
TargetLists ==
    {l \in UNION {[1..n -> LightIds] : n \in 0..MaxTargets} :
        \A i, j \in 1..Len(l) : i # j => l[i] # l[j]}

\* What a caller may put in a command: brightness 100, a color temperature of
\* 3000 K (the kelvin key), a transition of 5 s
CommandData ==
    {CallData(b, k, {}, t) : b \in {{}, {100}}, k \in {{}, {3000}}, t \in {{}, {5}}}

\* The lights that have an AdaptiveLightEntity: the configured ones
EntityTargets == {LightA, LightB}

\* The offsets the white-balance test is called with
TestOffsets == {-300, 500}

\* Light tables for the commands: the living room enabled or not, each light
\* with a usable or a null brightness_factor
CommandTables ==
    {(LightA :> LightConfig(2000, 6500, 100, bfA, enA))
     @@ (LightB :> LightConfig(2000, 6500, -50, bfB, TRUE)) :
        enA \in BOOLEAN, bfA \in {{800}, {}}, bfB \in {{1200}, {}}}

InitCmd ==
    /\ now = 12 * 60
    /\ sun_times = {}
    /\ calc = FixtureBounds
    /\ lights \in CommandTables
    /\ factor = {}
    /\ settings = {}
    /\ corrected = {}
    /\ validation = {}
    /\ CmdIdle
    /\ HostIdle

\* AdaptiveLightingManager.enable_interception (both services are registered)
EnableInterception ==
    /\ received = {}
    /\ ManagerBecomes(EnableInterceptionResult(ManagerState, FALSE))
    /\ UNCHANGED <<regVars, hostVars, calcVars, outVars, adaptive_enabled, available,
                   adaptive_light, received, forwarded>>

\* AdaptiveLightingManager.disable_interception
DisableInterception ==
    /\ received = {}
    /\ ManagerBecomes(DisableInterceptionResult(ManagerState, FALSE))
    /\ UNCHANGED <<regVars, hostVars, calcVars, outVars, adaptive_enabled, available,
                   adaptive_light, received, forwarded>>

\* A caller invokes light.turn_on or light.toggle through hass.services
LightServiceCall(call) ==
    /\ received = {}
    /\ received' = {[op |-> "service_call", call |-> call,
                     raised |-> CallRaises(call)]}
    /\ forwarded' = AsyncCall(call)
    /\ UNCHANGED <<regVars, hostVars, calcVars, outVars, registry, original_handlers,
                   interception_enabled, adaptive_enabled, available,
                   adaptive_light>>

\* AdaptiveLightEntity.async_turn_on(**kwargs) of the entity wrapping target
EntityTurnOn(target, kwargs) ==
    /\ received = {}
    /\ received' = {[op |-> "entity_turn_on",
                     call |-> ServiceCall("light.turn_on", <<target>>, kwargs),
                     raised |-> EntityComputeRaises(target, kwargs)]}
    /\ forwarded' = EntityTurnOnCalls(target, kwargs)
    /\ UNCHANGED <<regVars, hostVars, calcVars, outVars, registry, original_handlers,
                   interception_enabled, adaptive_enabled, available,
                   adaptive_light>>

\* The apply_adaptive_settings service, with its lights and transition fields
ApplyAdaptiveSettings(lights_arg, transition) ==
    /\ received = {}
    /\ received' = {[op |-> "apply_adaptive_settings",
                     call |-> ServiceCall("apply_adaptive_settings", lights_arg,
                                          CallData({}, {}, {}, transition)),
                     raised |-> ServiceFailing(lights_arg) # {}]}
    /\ forwarded' = ApplyAdaptiveSettingsCalls(lights_arg,
                        IF transition = {} THEN 1
                        ELSE CHOOSE t \in transition : TRUE)
    /\ UNCHANGED <<regVars, hostVars, calcVars, outVars, registry, original_handlers,
                   interception_enabled, adaptive_enabled, available,
                   adaptive_light>>

\* The test_white_balance service for the entity wrapping target
TestWhiteBalance(target, white_balance_offset, brightness, transition) ==
    /\ received = {}
    /\ received' = {[op |-> "test_white_balance",
                     call |-> ServiceCall("test_white_balance", <<target>>,
                                          CallData(brightness, {}, {}, transition)),
                     white_balance_offset |-> white_balance_offset,
                     raised |-> CorrectionRaises(target)]}
    /\ forwarded' = TestWhiteBalanceCalls(target, white_balance_offset,
                                          brightness, transition)
    /\ UNCHANGED <<regVars, hostVars, calcVars, outVars, registry, original_handlers,
                   interception_enabled, adaptive_enabled, available,
                   adaptive_light>>

\* AdaptiveLightEntity.set_adaptive_enabled / async_enable_adaptive /
\* async_disable_adaptive
SetAdaptiveEnabled(target, enabled) ==
    /\ received = {}
    /\ adaptive_enabled' = [adaptive_enabled EXCEPT ![target] = enabled]
    /\ UNCHANGED <<regVars, hostVars, calcVars, outVars, registry, original_handlers,
                   interception_enabled, available, adaptive_light, received,
                   forwarded>>

\* AdaptiveLightEntity._async_update_from_target: the target light's state is
\* usable or not
TargetStateChanged(target, usable) ==
    /\ received = {}
    /\ available' = [available EXCEPT ![target] = usable]
    /\ UNCHANGED <<regVars, hostVars, calcVars, outVars, registry, original_handlers,
                   interception_enabled, adaptive_enabled, adaptive_light,
                   received, forwarded>>

\* The operation has returned; the next one starts from a clean record
Complete ==
    /\ received # {}
    /\ pending = {}
    /\ received' = {}
    /\ forwarded' = <<>>
    /\ UNCHANGED <<regVars, hostVars, calcVars, outVars, registry, original_handlers,
                   interception_enabled, adaptive_enabled, available,
                   adaptive_light>>

NextCmd ==
    \/ EnableInterception
    \/ DisableInterception
    \/ \E s \in Services, l \in TargetLists, d \in CommandData :
            LightServiceCall(ServiceCall(s, l, d))
    \/ \E e \in EntityTargets, d \in CommandData : EntityTurnOn(e, d)
    \/ \E l \in TargetLists, t \in {{}, {5}} : ApplyAdaptiveSettings(l, t)
    \/ \E e \in EntityTargets, wb \in TestOffsets, b \in {{}, {100}} :
            TestWhiteBalance(e, wb, b, {})
    \/ \E e \in EntityTargets, b \in BOOLEAN : SetAdaptiveEnabled(e, b)
    \/ \E e \in EntityTargets, b \in BOOLEAN : TargetStateChanged(e, b)
    \/ Complete

SpecCmd == InitCmd /\ [][NextCmd]_vars

-----------------------------------------------------------------------------
(* SpecLight: the AdaptiveLight entity *)

\* The corrections an AdaptiveLight is built with or updated to: offsets
\* (including -5000) and brightness factors (0.8, 1.0, 10.0)
LightOffsets == {-5000, 0, 100}

LightFactors == {800, One, 10000}

\* The kwargs of a command to the AdaptiveLight: brightness 100, 3000 K under
\* the color_temp_kelvin key, a transition of 5 s
LightKwargs ==
    {CallData(b, {}, k, t) : b \in {{}, {100}}, k \in {{}, {3000}}, t \in {{}, {5}}}

InitLight ==
    /\ now \in {0, 6 * 60, 12 * 60}
    /\ sun_times = {}
    /\ calc = DefaultBounds
    /\ lights = FixtureLights
    /\ factor = {}
    /\ settings = {}
    /\ corrected = {}
    /\ validation = {}
    /\ registry = [s \in Services |-> LightPlatformHandler(s)]
    /\ original_handlers = <<>>
    /\ interception_enabled = FALSE
    /\ adaptive_enabled = [e \in {LightA, LightB} |-> TRUE]
    /\ available = [e \in {LightA, LightB} |-> TRUE]
    /\ adaptive_light \in {AdaptiveLightInit(wb, bf) :
                              wb \in {0, 100}, bf \in {800, One}}
    /\ received = {}
    /\ forwarded = <<>>
    /\ HostIdle

\* AdaptiveLight.async_turn_on(**kwargs); fails: the service call to the
\* target light raises, and the exception leaves async_turn_on
AdaptiveLightTurnOn(kwargs, fails) ==
    LET final == AdaptiveLightFinal(adaptive_light, kwargs)
    IN  /\ received = {}
        /\ adaptive_light' =
              [adaptive_light EXCEPT
                 !.is_on = TRUE,
                 !.brightness = CHOOSE b \in final.brightness : TRUE,
                 !.color_temp = CHOOSE k \in final.color_temp : TRUE]
        /\ received' = {[op |-> "adaptive_light_turn_on",
                         call |-> ServiceCall("light.turn_on",
                                              <<AdaptiveLightTarget>>, kwargs),
                         raised |-> fails]}
        /\ forwarded' = IF fails THEN <<>>
                        ELSE AsyncCall(ControlTargetLightOn(final))
        /\ UNCHANGED <<regVars, hostVars, calcVars, outVars, registry, original_handlers,
                       interception_enabled, adaptive_enabled, available>>

\* AdaptiveLight.async_turn_off(**kwargs)
AdaptiveLightTurnOff(kwargs, fails) ==
    LET transition == IF kwargs.transition # {} THEN kwargs.transition ELSE {1}
    IN  /\ received = {}
        /\ adaptive_light' = [adaptive_light EXCEPT !.is_on = FALSE]
        /\ received' = {[op |-> "adaptive_light_turn_off",
                         call |-> ServiceCall("light.turn_off",
                                              <<AdaptiveLightTarget>>, kwargs),
                         raised |-> fails]}
        /\ forwarded' = IF fails THEN <<>>
                        ELSE AsyncCall(ControlTargetLightOff(transition))
        /\ UNCHANGED <<regVars, hostVars, calcVars, outVars, registry, original_handlers,
                       interception_enabled, adaptive_enabled, available>>

\* The corrections an AdaptiveLight holds: its offset and its factor
Corrections(al) ==
    [white_balance_offset |-> al.white_balance_offset,
     brightness_factor |-> al.brightness_factor]

\* The corrections an async_update_settings call asks for: each argument
\* that is not None replaces the setting, None keeps it
UpdatedCorrections(al, white_balance_offset, brightness_factor) ==
    [white_balance_offset |->
         IF white_balance_offset = {} THEN al.white_balance_offset
         ELSE CHOOSE v \in white_balance_offset : TRUE,
     brightness_factor |->
         IF brightness_factor = {} THEN al.brightness_factor
         ELSE CHOOSE v \in brightness_factor : TRUE]

\* An update that stores the offset and is left before it stores the factor
AsyncUpdateSettingsOffsetOnly(white_balance_offset, brightness_factor) ==
    /\ adaptive_light' =
          [adaptive_light EXCEPT
             !.white_balance_offset =
                 IF white_balance_offset = {} THEN @
                 ELSE CHOOSE v \in white_balance_offset : TRUE]
    /\ updated' = {[old |-> Corrections(adaptive_light),
                    new |-> UpdatedCorrections(adaptive_light,
                                white_balance_offset, brightness_factor)]}
    /\ UNCHANGED <<regVars, calcVars, outVars, registry, original_handlers,
                   interception_enabled, adaptive_enabled, available,
                   received, forwarded, switch, hass_data,
                   services_registered>>

\* AdaptiveLight.async_update_settings(white_balance_offset, brightness_factor),
\* each Optional: None leaves the setting as it is.  A @callback: it runs to
\* its end without a suspension point, also while a command awaits its target
AsyncUpdateSettings(white_balance_offset, brightness_factor) ==
    /\ adaptive_light' =
          [adaptive_light EXCEPT
             !.white_balance_offset =
                 IF white_balance_offset = {} THEN @
                 ELSE CHOOSE v \in white_balance_offset : TRUE,
             !.brightness_factor =
                 IF brightness_factor = {} THEN @
                 ELSE CHOOSE v \in brightness_factor : TRUE]
    /\ updated' = {[old |-> Corrections(adaptive_light),
                    new |-> UpdatedCorrections(adaptive_light,
                                white_balance_offset, brightness_factor)]}
    /\ UNCHANGED <<regVars, calcVars, outVars, registry, original_handlers,
                   interception_enabled, adaptive_enabled, available,
                   received, forwarded, switch, hass_data,
                   services_registered>>

NextLight ==
    \/ \E k \in LightKwargs, fails \in BOOLEAN : AdaptiveLightTurnOn(k, fails)
    \/ \E k \in LightKwargs, fails \in BOOLEAN : AdaptiveLightTurnOff(k, fails)
    \/ \E wb \in {{}} \cup {{v} : v \in LightOffsets},
          bf \in {{}} \cup {{v} : v \in LightFactors} :
            AsyncUpdateSettings(wb, bf)
    \/ Complete

SpecLight == InitLight /\ [][NextLight]_vars

-----------------------------------------------------------------------------
(* SpecSwitch: the manager's interception and the switch that drives it *)

\* enabled_count of _get_adaptive_light_states: the entities that are
\* available and whose adaptive functionality is enabled in en
EnabledCount(en) == Cardinality({e \in EntityTargets : available[e] /\ en[e]})

\* _enable_adaptive_lights / _disable_adaptive_lights: the flag of every
\* adaptive light entity is set
AllAdaptive(enabled) == [e \in EntityTargets |-> enabled]

InitSwitch ==
    /\ now = 12 * 60
    /\ sun_times = {}
    /\ calc = FixtureBounds
    /\ lights = FixtureLights
    /\ factor = {}
    /\ settings = {}
    /\ corrected = {}
    /\ validation = {}
    /\ CmdIdle
    /\ HostIdle

\* A call of AdaptiveLightingManager.enable_interception
CallEnableInterception(fails) ==
    /\ received = {}
    /\ ManagerBecomes(EnableInterceptionResult(ManagerState, fails))
    /\ received' = {[op |-> "enable_interception", before |-> ManagerState,
                     failed |-> fails, raised |-> FALSE]}
    /\ forwarded' = <<>>
    /\ UNCHANGED <<regVars, hostVars, calcVars, outVars, adaptive_enabled, available,
                   adaptive_light>>

\* A call of AdaptiveLightingManager.disable_interception
CallDisableInterception(fails) ==
    /\ received = {}
    /\ ManagerBecomes(DisableInterceptionResult(ManagerState, fails))
    /\ received' = {[op |-> "disable_interception", before |-> ManagerState,
                     failed |-> fails, raised |-> FALSE]}
    /\ forwarded' = <<>>
    /\ UNCHANGED <<regVars, hostVars, calcVars, outVars, adaptive_enabled, available,
                   adaptive_light>>

\* An async_added_to_hass that restores the state and enables nothing
SwitchAddedRestoresOnly(last_state, fails, raises) ==
    /\ received = {}
    /\ switch.stage = "constructed"
    /\ switch' = [is_on |-> IF last_state = {} THEN switch.is_on
                            ELSE last_state = {"on"},
                  stage |-> "added"]
    /\ received' = {[op |-> "switch_added", last_state |-> last_state,
                     invoked |-> <<>>, raised |-> FALSE]}
    /\ forwarded' = <<>>
    /\ UNCHANGED <<registry, original_handlers, interception_enabled,
                   adaptive_enabled>>
    /\ UNCHANGED <<regVars, updated, hass_data, services_registered, calcVars, outVars,
                   available, adaptive_light>>

\* AdaptiveLightingSwitch.async_added_to_hass.  last_state: the restored
\* state, Optional; fails: the manager's registry access fails inside
\* enable_interception, which catches it; raises: an exception leaves the
\* enable_interception of the manager the switch was given
SwitchAdded(last_state, fails, raises) ==
    LET restored_on == last_state = {"on"}
    IN  /\ received = {}
        /\ switch.stage = "constructed"
        /\ switch' = [is_on |-> IF last_state = {} THEN switch.is_on
                                ELSE restored_on /\ ~raises,
                      stage |-> "added"]
        /\ adaptive_enabled' = IF restored_on THEN AllAdaptive(TRUE)
                               ELSE adaptive_enabled
        /\ IF restored_on /\ ~raises
           THEN ManagerBecomes(EnableInterceptionResult(ManagerState, fails))
           ELSE UNCHANGED <<registry, original_handlers, interception_enabled>>
        /\ received' = {[op |-> "switch_added", last_state |-> last_state,
                         invoked |-> IF restored_on
                                     THEN <<"enable_adaptive_lights",
                                            "enable_interception">>
                                     ELSE <<>>,
                         raised |-> restored_on /\ raises]}
        /\ forwarded' = <<>>
        /\ UNCHANGED <<regVars, updated, hass_data, services_registered, calcVars,
                       outVars, available, adaptive_light>>

\* An async_turn_on that reports on whatever became of the mechanisms
SwitchTurnOnAlwaysOn(fails, raises, cleanup_fails) ==
    /\ received = {}
    /\ switch.stage = "added"
    /\ adaptive_enabled' = AllAdaptive(TRUE)
    /\ ManagerBecomes(EnableInterceptionResult(ManagerState, fails))
    /\ switch' = [switch EXCEPT !.is_on = TRUE]
    /\ received' = {[op |-> "switch_turn_on",
                     invoked |-> <<"enable_adaptive_lights",
                                   "enable_interception">>,
                     was_on |-> switch.is_on, raised |-> FALSE]}
    /\ forwarded' = <<>>
    /\ UNCHANGED <<regVars, updated, hass_data, services_registered, calcVars, outVars,
                   available, adaptive_light>>

\* AdaptiveLightingSwitch.async_turn_on.  cleanup_fails: the registry access
\* of the disable_interception in the except branch fails (and is caught)
SwitchTurnOn(fails, raises, cleanup_fails) ==
    LET enabled == EnableInterceptionResult(ManagerState, fails)
        cleaned == DisableInterceptionResult(ManagerState, cleanup_fails)
    IN  /\ received = {}
        /\ switch.stage = "added"
        /\ IF ~raises
           THEN /\ adaptive_enabled' = AllAdaptive(TRUE)
                /\ ManagerBecomes(enabled)
                /\ switch' = [switch EXCEPT !.is_on =
                                 enabled.interception_enabled
                                 \/ EnabledCount(AllAdaptive(TRUE)) > 0]
           ELSE /\ adaptive_enabled' = AllAdaptive(FALSE)
                /\ ManagerBecomes(cleaned)
                /\ switch' = [switch EXCEPT !.is_on = FALSE]
        /\ received' = {[op |-> "switch_turn_on",
                         invoked |-> IF ~raises
                                     THEN <<"enable_adaptive_lights",
                                            "enable_interception">>
                                     ELSE <<"enable_adaptive_lights",
                                            "enable_interception",
                                            "disable_adaptive_lights",
                                            "disable_interception">>,
                         was_on |-> switch.is_on, raised |-> raises]}
        /\ forwarded' = <<>>
        /\ UNCHANGED <<regVars, updated, hass_data, services_registered, calcVars,
                       outVars, available, adaptive_light>>

\* AdaptiveLightingSwitch.async_turn_off.  raises: an exception leaves the
\* disable_interception of the manager the switch was given
SwitchTurnOff(fails, raises) ==
    LET disabled == DisableInterceptionResult(ManagerState, fails)
    IN  /\ received = {}
        /\ switch.stage = "added"
        /\ adaptive_enabled' = AllAdaptive(FALSE)
        /\ IF ~raises
           THEN /\ ManagerBecomes(disabled)
                /\ switch' = [switch EXCEPT !.is_on =
                                 IF ~disabled.interception_enabled
                                    /\ EnabledCount(AllAdaptive(FALSE)) = 0
                                 THEN FALSE ELSE @]
           ELSE /\ UNCHANGED <<registry, original_handlers,
                               interception_enabled>>
                /\ switch' = [switch EXCEPT !.is_on =
                                 interception_enabled
                                 \/ EnabledCount(AllAdaptive(FALSE)) > 0]
        /\ received' = {[op |-> "switch_turn_off",
                         invoked |-> <<"disable_adaptive_lights",
                                       "disable_interception">>,
                         was_on |-> switch.is_on, raised |-> raises]}
        /\ forwarded' = <<>>
        /\ UNCHANGED <<regVars, updated, hass_data, services_registered, calcVars,
                       outVars, available, adaptive_light>>

\* An async_will_remove_from_hass that cleans up whatever the switch reports
SwitchRemoveAlwaysCleans(fails, raises) ==
    /\ received = {}
    /\ switch.stage = "added"
    /\ switch' = [switch EXCEPT !.stage = "removed"]
    /\ adaptive_enabled' = AllAdaptive(FALSE)
    /\ IF ~raises
       THEN ManagerBecomes(DisableInterceptionResult(ManagerState, fails))
       ELSE UNCHANGED <<registry, original_handlers, interception_enabled>>
    /\ received' = {[op |-> "switch_remove",
                     invoked |-> <<"disable_adaptive_lights",
                                   "disable_interception">>,
                     was_on |-> switch.is_on, cleanup_failed |-> fails \/ raises,
                     raised |-> FALSE]}
    /\ forwarded' = <<>>
    /\ UNCHANGED <<regVars, updated, hass_data, services_registered, calcVars, outVars,
                   available, adaptive_light>>

\* AdaptiveLightingSwitch.async_will_remove_from_hass: the cleanup's
\* exception, if any, is logged and goes no further (raised is FALSE)
SwitchRemove(fails, raises) ==
    /\ received = {}
    /\ switch.stage = "added"
    /\ switch' = [switch EXCEPT !.stage = "removed"]
    /\ adaptive_enabled' = IF switch.is_on THEN AllAdaptive(FALSE)
                           ELSE adaptive_enabled
    /\ IF switch.is_on /\ ~raises
       THEN ManagerBecomes(DisableInterceptionResult(ManagerState, fails))
       ELSE UNCHANGED <<registry, original_handlers, interception_enabled>>
    /\ received' = {[op |-> "switch_remove",
                     invoked |-> IF switch.is_on
                                 THEN <<"disable_adaptive_lights",
                                        "disable_interception">>
                                 ELSE <<>>,
                     was_on |-> switch.is_on,
                     cleanup_failed |-> switch.is_on /\ (fails \/ raises),
                     raised |-> FALSE]}
    /\ forwarded' = <<>>
    /\ UNCHANGED <<regVars, updated, hass_data, services_registered, calcVars, outVars,
                   available, adaptive_light>>

\* The previous states async_get_last_state may yield
LastStates == {{}, {"on"}, {"off"}}

NextSwitch ==
    \/ \E fails \in BOOLEAN : CallEnableInterception(fails)
    \/ \E fails \in BOOLEAN : CallDisableInterception(fails)
    \/ \E l \in LastStates, fails \in BOOLEAN, raises \in BOOLEAN :
            SwitchAdded(l, fails, raises)
    \/ \E fails \in BOOLEAN, raises \in BOOLEAN, cleanup_fails \in BOOLEAN :
            SwitchTurnOn(fails, raises, cleanup_fails)
    \/ \E fails \in BOOLEAN, raises \in BOOLEAN : SwitchTurnOff(fails, raises)
    \/ \E fails \in BOOLEAN, raises \in BOOLEAN : SwitchRemove(fails, raises)
    \/ \E e \in EntityTargets, b \in BOOLEAN : SetAdaptiveEnabled(e, b)
    \/ \E e \in EntityTargets, b \in BOOLEAN : TargetStateChanged(e, b)
    \/ Complete

SpecSwitch == InitSwitch /\ [][NextSwitch]_vars

-----------------------------------------------------------------------------
(* SpecEntry: __init__.py, setting up, unloading and reloading config entries *)

\* The config entries
Entries == {"entry_1", "entry_2", "entry_3"}

\* What a setup meets: everything works, manager.setup() returns False, the
\* manager's constructor raises, or forwarding to the platforms raises
SetupOutcomes == {"ok", "setup_false", "manager_raises", "forward_raises"}

\* What hass.config_entries.async_unload_platforms does: it returns True or
\* False, or it raises
UnloadOutcomes == {"ok", "not_ok", "raises"}

\* The host state the entry functions work on: hass.data[DOMAIN] (Optional:
\* {} when the key DOMAIN is absent) and the integration's services
HostState == [data |-> hass_data, services |-> services_registered]

\* The entry ids with data in the host state h
EntryIds(h) == UNION h.data

\* An async_setup_entry that stores the entry's data before it sets the
\* manager up
SetupEntryStoresFirst(h, entry, outcome) ==
    IF outcome = "manager_raises"
    THEN [data |-> {EntryIds(h) \ {entry}}, services |-> h.services,
          result |-> {}, raised |-> {"ConfigEntryNotReady"}]
    ELSE IF outcome = "setup_false"
    THEN [data |-> {EntryIds(h) \cup {entry}}, services |-> h.services,
          result |-> {FALSE}, raised |-> {}]
    ELSE IF outcome = "forward_raises"
    THEN [data |-> {EntryIds(h) \ {entry}}, services |-> TRUE,
          result |-> {}, raised |-> {"ConfigEntryNotReady"}]
    ELSE [data |-> {EntryIds(h) \cup {entry}}, services |-> TRUE,
          result |-> {TRUE}, raised |-> {}]

\* async_setup_entry(hass, entry) on the host state h: the host state after
\* it, what it returned (Optional) and what it raised (Optional).  The key
\* DOMAIN exists from its first statement on; the except branch pops the
\* entry's data and raises ConfigEntryNotReady
SetupEntryResult(h, entry, outcome) ==
    IF outcome = "manager_raises"
    THEN [data |-> {EntryIds(h) \ {entry}}, services |-> h.services,
          result |-> {}, raised |-> {"ConfigEntryNotReady"}]
    ELSE IF outcome = "setup_false"
    THEN [data |-> {EntryIds(h)}, services |-> h.services,
          result |-> {FALSE}, raised |-> {}]
    ELSE IF outcome = "forward_raises"
    THEN [data |-> {EntryIds(h) \ {entry}}, services |-> TRUE,
          result |-> {}, raised |-> {"ConfigEntryNotReady"}]
    ELSE [data |-> {EntryIds(h) \cup {entry}}, services |-> TRUE,
          result |-> {TRUE}, raised |-> {}]

\* An async_unload_entry that keeps the data when an exception occurs
UnloadEntryKeepsOnException(h, entry, platforms) ==
    IF platforms = "raises" \/ (platforms = "ok" /\ h.data = {})
    THEN [data |-> h.data, services |-> h.services,
          result |-> FALSE, exception |-> TRUE]
    ELSE IF platforms = "not_ok"
    THEN [data |-> h.data, services |-> h.services,
          result |-> FALSE, exception |-> FALSE]
    ELSE [data |-> {EntryIds(h) \ {entry}},
          services |-> IF EntryIds(h) \ {entry} = {} THEN FALSE ELSE h.services,
          result |-> TRUE, exception |-> FALSE]

\* async_unload_entry(hass, entry) on the host state h: the host state after
\* it, what it returned, and whether its except branch ran.  With the
\* platforms unloaded and the key DOMAIN absent, hass.data[DOMAIN] raises
UnloadEntryResult(h, entry, platforms) ==
    IF platforms = "raises" \/ (platforms = "ok" /\ h.data = {})
    THEN [data |-> IF h.data = {} THEN {} ELSE {EntryIds(h) \ {entry}},
          services |-> h.services, result |-> FALSE, exception |-> TRUE]
    ELSE IF platforms = "not_ok"
    THEN [data |-> h.data, services |-> h.services,
          result |-> FALSE, exception |-> FALSE]
    ELSE [data |-> {EntryIds(h) \ {entry}},
          services |-> IF EntryIds(h) \ {entry} = {} THEN FALSE ELSE h.services,
          result |-> TRUE, exception |-> FALSE]

InitEntry ==
    /\ now = 12 * 60
    /\ sun_times = {}
    /\ calc = FixtureBounds
    /\ lights = FixtureLights
    /\ factor = {}
    /\ settings = {}
    /\ corrected = {}
    /\ validation = {}
    /\ CmdIdle
    /\ HostIdle

\* The host sets up an entry that is not loaded
SetupEntry(entry, outcome) ==
    LET after == SetupEntryResult(HostState, entry, outcome)
    IN  /\ received = {}
        /\ entry \notin EntryIds(HostState)
        /\ hass_data' = after.data
        /\ services_registered' = after.services
        /\ received' = {[op |-> "setup_entry", entry |-> entry,
                         outcome |-> outcome, had_data |-> FALSE,
                         result |-> after.result, raised |-> after.raised]}
        /\ forwarded' = <<>>
        /\ UNCHANGED <<regVars, updated, switch, calcVars, outVars, registry,
                       original_handlers, interception_enabled,
                       adaptive_enabled, available, adaptive_light>>

\* async_reload_entry, the update listener of an entry that was set up:
\* async_unload_entry, then async_setup_entry whatever the unload returned.
\* The record is that of the setup
ReloadEntry(entry, platforms, outcome) ==
    LET unloaded == UnloadEntryResult(HostState, entry, platforms)
        between == [data |-> unloaded.data, services |-> unloaded.services]
        after == SetupEntryResult(between, entry, outcome)
    IN  /\ received = {}
        /\ hass_data # {}
        /\ hass_data' = after.data
        /\ services_registered' = after.services
        /\ received' = {[op |-> "reload_entry", entry |-> entry,
                         outcome |-> outcome,
                         had_data |-> entry \in EntryIds(between),
                         result |-> after.result, raised |-> after.raised]}
        /\ forwarded' = <<>>
        /\ UNCHANGED <<regVars, updated, switch, calcVars, outVars, registry,
                       original_handlers, interception_enabled,
                       adaptive_enabled, available, adaptive_light>>

\* async_unload_entry called on its own, whether or not the entry has data
\* (the tests also call it before anything was stored)
UnloadEntry(entry, platforms) ==
    LET after == UnloadEntryResult(HostState, entry, platforms)
    IN  /\ received = {}
        /\ hass_data' = after.data
        /\ services_registered' = after.services
        /\ received' = {[op |-> "unload_entry", entry |-> entry,
                         platforms |-> platforms,
                         had_data |-> entry \in EntryIds(HostState),
                         result |-> after.result,
                         exception |-> after.exception]}
        /\ forwarded' = <<>>
        /\ UNCHANGED <<regVars, updated, switch, calcVars, outVars, registry,
                       original_handlers, interception_enabled,
                       adaptive_enabled, available, adaptive_light>>

NextEntry ==
    \/ \E e \in Entries, o \in SetupOutcomes : SetupEntry(e, o)
    \/ \E e \in Entries, p \in UnloadOutcomes : UnloadEntry(e, p)
    \/ \E e \in Entries, p \in UnloadOutcomes, o \in SetupOutcomes :
            ReloadEntry(e, p, o)
    \/ Complete

SpecEntry == InitEntry /\ [][NextEntry]_vars

-----------------------------------------------------------------------------
(* SpecEnable: enable_interception with registry operations that raise *)

InitEnable ==
    /\ now = 12 * 60
    /\ sun_times = {}
    /\ calc = FixtureBounds
    /\ lights = FixtureLights
    /\ factor = {}
    /\ settings = {}
    /\ corrected = {}
    /\ validation = {}
    /\ CmdIdle
    /\ HostIdle

\* A call of AdaptiveLightingManager.enable_interception during which the
\* registry operation at failure raises (NoFailure: none does)
EnableInterceptionFailing(failure) ==
    /\ received = {}
    /\ ManagerBecomes(EnableInterceptionAt(ManagerState, "interceptor", failure))
    /\ received' = {[op |-> "enable_interception", before |-> ManagerState,
                     failure |-> failure,
                     failed |-> ~interception_enabled
                                /\ FailureMet(ManagerState, failure),
                     raised |-> FALSE]}
    /\ forwarded' = <<>>
    /\ UNCHANGED <<regVars, hostVars, calcVars, outVars, adaptive_enabled,
                   available, adaptive_light>>

\* The commands of this specification: either service, for the living room,
\* the bedroom or both
RegistryCalls ==
    {ServiceCall(s, l, CallData({}, {}, {}, {})) :
        s \in Services, l \in {<<LightA>>, <<LightB>>, <<LightA, LightB>>}}

\* A caller invokes a light service through hass.services: the handler
\* registered for the service runs; no handler is registered after an
\* async_remove that no async_register followed, and the call is refused
DispatchLightCommand(call) ==
    /\ received = {}
    /\ received' = {[op |-> "service_call", call |-> call,
                     handler |-> registry[call.service],
                     raised |-> registry[call.service] # "absent"
                                /\ CallRaises(call)]}
    /\ forwarded' = IF registry[call.service] = "absent" THEN <<>>
                    ELSE AsyncCall(call)
    /\ UNCHANGED <<regVars, hostVars, calcVars, outVars, registry,
                   original_handlers, interception_enabled, adaptive_enabled,
                   available, adaptive_light>>

NextEnable ==
    \/ \E f \in FailurePoints \cup {NoFailure} : EnableInterceptionFailing(f)
    \/ \E fails \in BOOLEAN : CallDisableInterception(fails)
    \/ \E c \in RegistryCalls : DispatchLightCommand(c)
    \/ Complete

SpecEnable == InitEnable /\ [][NextEnable]_vars

-----------------------------------------------------------------------------
(* SpecManagers: two config entries, two managers, one service registry *)

\* The second manager's interception state on the shared registry
SecondState ==
    [registry |-> registry, original_handlers |-> second.original_handlers,
     interception_enabled |-> second.interception_enabled]

\* The second manager's state after the step is m
SecondBecomes(m) ==
    /\ registry' = m.registry
    /\ second' = [original_handlers |-> m.original_handlers,
                  interception_enabled |-> m.interception_enabled]

\* The handler the manager of the interceptor h has stored for the service,
\* Optional
StoredHandler(h, service) ==
    LET handlers == IF h = "interceptor" THEN original_handlers
                    ELSE second.original_handlers
    IN  IF service \in DOMAIN handlers THEN {handlers[service]} ELSE {}

IsInterceptor(h) == h \in {"interceptor", "second_interceptor"}

\* The calls in order of a sequence of sequences of calls
RECURSIVE Flatten(_)
Flatten(seqs) ==
    IF seqs = <<>> THEN <<>> ELSE Head(seqs) \o Flatten(Tail(seqs))

\* What an interceptor hands to the handler its manager stored: the second
\* manager nominates none of the lights commanded here and passes the call
\* through; the first processes it as async_intercept_service_call does.
\* Without a stored handler the interceptor logs an error and returns
InterceptorForwards(h, call) ==
    IF StoredHandler(h, call.service) = {} THEN <<>>
    ELSE IF h = "second_interceptor" THEN <<call>>
    ELSE InterceptServiceCall(call)

\* Whether calling the handler h never reaches the light platform because
\* each manager has stored the other's interceptor
HandlersLoop(h, service) ==
    /\ IsInterceptor(h)
    /\ \E h1 \in StoredHandler(h, service) :
          /\ IsInterceptor(h1)
          /\ \E h2 \in StoredHandler(h1, service) : IsInterceptor(h2)

\* The calls that reach the light platform's handler when the handler h is
\* called by an interceptor that an interceptor called
ReachPlatformLast(h, call) ==
    IF IsInterceptor(h) \/ h = "absent" THEN <<>> ELSE <<call>>

\* ... when the handler h is called by the interceptor that was registered
ReachPlatformNext(h, call) ==
    IF h = "absent" \/ HandlersLoop(h, call.service) THEN <<>>
    ELSE IF ~IsInterceptor(h) THEN <<call>>
    ELSE LET calls == InterceptorForwards(h, call)
         IN  Flatten([i \in 1..Len(calls) |->
                 LET stored == CHOOSE x \in StoredHandler(h, call.service) : TRUE
                 IN  ReachPlatformLast(stored, calls[i])])

\* ... when the registered handler h is called
ReachPlatform(h, call) ==
    IF h = "absent" \/ HandlersLoop(h, call.service) THEN <<>>
    ELSE IF ~IsInterceptor(h) THEN <<call>>
    ELSE LET calls == InterceptorForwards(h, call)
         IN  Flatten([i \in 1..Len(calls) |->
                 LET stored == CHOOSE x \in StoredHandler(h, call.service) : TRUE
                 IN  ReachPlatformNext(stored, calls[i])])

InitManagers ==
    /\ now = 12 * 60
    /\ sun_times = {}
    /\ calc = FixtureBounds
    /\ lights = FixtureLights
    /\ factor = {}
    /\ settings = {}
    /\ corrected = {}
    /\ validation = {}
    /\ CmdIdle
    /\ HostIdle

\* enable_interception of the second manager
SecondEnableInterception ==
    /\ received = {}
    /\ SecondBecomes(EnableInterceptionAt(SecondState, "second_interceptor",
                                          NoFailure))
    /\ received' = {[op |-> "second_enable_interception",
                     before |-> SecondState, failed |-> FALSE,
                     raised |-> FALSE]}
    /\ forwarded' = <<>>
    /\ UNCHANGED <<pending, hostVars, calcVars, outVars, original_handlers,
                   interception_enabled, adaptive_enabled, available,
                   adaptive_light>>

\* disable_interception of the second manager
SecondDisableInterception ==
    /\ received = {}
    /\ SecondBecomes(DisableInterceptionResult(SecondState, FALSE))
    /\ received' = {[op |-> "second_disable_interception",
                     before |-> SecondState, failed |-> FALSE,
                     raised |-> FALSE]}
    /\ forwarded' = <<>>
    /\ UNCHANGED <<pending, hostVars, calcVars, outVars, original_handlers,
                   interception_enabled, adaptive_enabled, available,
                   adaptive_light>>

\* A caller invokes a light service through hass.services: the registered
\* handler runs, and each interceptor calls the handler its manager stored
DeliverLightCommand(call) ==
    /\ received = {}
    /\ received' = {[op |-> "service_call", call |-> call,
                     handler |-> registry[call.service],
                     loops |-> HandlersLoop(registry[call.service],
                                            call.service),
                     raised |-> FALSE]}
    /\ forwarded' = ReachPlatform(registry[call.service], call)
    /\ UNCHANGED <<regVars, hostVars, calcVars, outVars, registry,
                   original_handlers, interception_enabled, adaptive_enabled,
                   available, adaptive_light>>

NextManagers ==
    \/ CallEnableInterception(FALSE)
    \/ CallDisableInterception(FALSE)
    \/ SecondEnableInterception
    \/ SecondDisableInterception
    \/ \E c \in RegistryCalls : DeliverLightCommand(c)
    \/ Complete

SpecManagers == InitManagers /\ [][NextManagers]_vars

-----------------------------------------------------------------------------
(* SpecInterleave: one manager, commands processed await by await *)

\* The calls async_intercept_service_call hands to original_handler, the
\* handler it read when it began, before a computation raises (all of them
\* when none does)
InterceptPlan(call) ==
    LET adaptive == AdaptiveEntities(call)
        failing == FailingPositions(call)
        done == IF failing = {} THEN Len(adaptive)
                ELSE (CHOOSE i \in failing : \A j \in failing : i <= j) - 1
    IN  IF adaptive = <<>> THEN <<call>>
        ELSE IF Len(call.entity_id) = 1
        THEN IF failing # {} THEN <<>>
             ELSE <<ServiceCall(call.service, call.entity_id,
                      UpdateWithSettings(call.data,
                          CalculateAdaptiveSettings(call.entity_id[1])))>>
        ELSE NonAdaptiveCall(call)
             \o [i \in 1..done |-> AdaptiveCall(call, adaptive[i])]

\* The interceptor runs on from where it is to its next await: the next call
\* of its plan is handed over, or, the plan done and a computation raising,
\* the except branch looks the handler up again and hands it the original
\* call.  The result: the calls handed over and what is left to do, Optional
RunToAwait(call, plan, raises) ==
    IF plan # <<>>
    THEN [calls |-> <<Head(plan)>>,
          left |-> IF Tail(plan) = <<>> /\ ~raises THEN {}
                   ELSE {[call |-> call, plan |-> Tail(plan),
                          raises |-> raises]}]
    ELSE [calls |-> IF raises THEN ExceptFallback(call) ELSE <<>>,
          left |-> {}]

InitInterleave ==
    /\ now = 12 * 60
    /\ sun_times = {}
    /\ calc = FixtureBounds
    /\ lights \in CommandTables
    /\ factor = {}
    /\ settings = {}
    /\ corrected = {}
    /\ validation = {}
    /\ CmdIdle
    /\ HostIdle

\* The record of the command in progress, marked: the interception was
\* enabled or disabled while one of its calls was awaited
Interleaved == {[r EXCEPT !.interleaved = TRUE] : r \in received}

\* enable_interception, at any time: it has no await
EnableWhileProcessing ==
    /\ ~interception_enabled
    /\ ManagerBecomes(EnableInterceptionResult(ManagerState, FALSE))
    /\ received' = IF pending = {} THEN received ELSE Interleaved
    /\ UNCHANGED <<regVars, hostVars, calcVars, outVars, adaptive_enabled,
                   available, adaptive_light, forwarded>>

\* disable_interception, at any time: it has no await
DisableWhileProcessing ==
    /\ interception_enabled
    /\ ManagerBecomes(DisableInterceptionResult(ManagerState, FALSE))
    /\ received' = IF pending = {} THEN received ELSE Interleaved
    /\ UNCHANGED <<regVars, hostVars, calcVars, outVars, adaptive_enabled,
                   available, adaptive_light, forwarded>>

\* A caller invokes a light service through hass.services: the registered
\* handler is called.  The light platform's handler gets the call; the
\* interceptor reads its stored handler and runs to its first await
BeginCommand(call) ==
    LET intercepted == registry[call.service] = "interceptor"
        stored == call.service \in DOMAIN original_handlers
        step == RunToAwait(call, InterceptPlan(call),
                           FailingPositions(call) # {})
    IN  /\ received = {}
        /\ pending = {}
        /\ received' = {[op |-> "service_call", call |-> call,
                         handler |-> registry[call.service],
                         dropped |-> intercepted /\ ~stored,
                         interleaved |-> FALSE, raised |-> FALSE]}
        /\ forwarded' = IF ~intercepted THEN <<call>>
                        ELSE IF ~stored THEN <<>>
                        ELSE step.calls
        /\ pending' = IF intercepted /\ stored THEN step.left ELSE {}
        /\ UNCHANGED <<second, hostVars, calcVars, outVars, registry,
                       original_handlers, interception_enabled,
                       adaptive_enabled, available, adaptive_light>>

\* The handler awaited has returned: the interceptor runs to its next await
ContinueCommand ==
    \E p \in pending :
        LET step == RunToAwait(p.call, p.plan, p.raises)
        IN  /\ forwarded' = forwarded \o step.calls
            /\ pending' = step.left
            /\ UNCHANGED <<second, hostVars, calcVars, outVars, registry,
                           original_handlers, interception_enabled,
                           adaptive_enabled, available, adaptive_light,
                           received>>

\* The commands of this specification: either service, one to three lights
InterleavedCalls ==
    {ServiceCall(s, l, CallData({}, {}, {}, {})) :
        s \in Services, l \in {l \in TargetLists : Len(l) >= 1}}

NextInterleave ==
    \/ EnableWhileProcessing
    \/ DisableWhileProcessing
    \/ \E c \in InterleavedCalls : BeginCommand(c)
    \/ ContinueCommand
    \/ Complete

SpecInterleave == InitInterleave /\ [][NextInterleave]_vars

-----------------------------------------------------------------------------
(* Claims about the computed values *)

\* The settings calculate_adaptive_settings returned, if it returned
Returned == UNION {s.value : s \in settings}

\* The light the last calculate_adaptive_settings call was for
ComputedFor(e) == \E s \in settings : s.entity_id = e

\* C3: for every configured light, sun factor, offset and brightness factor,
\* the color_temp_kelvin calculate_adaptive_settings returns lies within that
\* light's own LightConfig bounds [min_color_temp, max_color_temp].
C3_ColorTempWithinLightBounds ==
    \A s \in settings : \A v \in s.value :
        s.entity_id \in ConfiguredLights =>
            /\ lights[s.entity_id].min_color_temp <= v.color_temp_kelvin
            /\ v.color_temp_kelvin <= lights[s.entity_id].max_color_temp

\* C4: for every light id, configured or not, every sun factor and every
\* brightness factor, with global bounds 1 <= min <= max <= 255, the brightness
\* calculate_adaptive_settings returns is in [1, 255].
C4_BrightnessInRange ==
    \A v \in Returned : 1 <= v.brightness /\ v.brightness <= 255

\* The factor 10.0 at full daylight is cut to 255; the global bounds hold
C4_Witness ==
    /\ ComputedFor(LightA)
    /\ lights[LightA].brightness_factor = {10000}
    /\ 1 <= calc.min_brightness /\ calc.min_brightness <= calc.max_brightness
    /\ calc.max_brightness <= 255
    /\ calc.max_brightness * 10 > 255
    /\ \E v \in Returned : v.brightness = 255

\* C9: _get_sun_position_factor returns a value in [0.0, 1.0] for every time
\* and every sunrise/sunset pair, degenerate orderings included.
C9_FactorInUnitInterval ==
    \A f \in factor : 0 <= f /\ f <= One

\* A factor computed inside a window of a day whose sunset precedes its sunrise
C9_Witness ==
    /\ sun_times # {}
    /\ GetSunTimes(sun_times).sunset < GetSunTimes(sun_times).sunrise
    /\ \E f \in factor : f > 0

\* The four boundaries of an ordinary day (sunrise_end < sunset_start)
OrdinaryDay ==
    GetSunTimes(sun_times).sunrise + transition_duration
        < GetSunTimes(sun_times).sunset - transition_duration

\* |a - b| is within the rounding of the fixed-point curve
Close(a, b) == a - b <= 2 /\ b - a <= 2

\* C10: the sun factor is continuous at sunrise_start, sunrise_end,
\* sunset_start and sunset_end: the value at the boundary equals the limit of
\* the adjacent piece on the other side.
C10_ContinuousAtBoundaries ==
    LET t == GetSunTimes(sun_times)
        sunrise_start == t.sunrise - transition_duration
        sunrise_end   == t.sunrise + transition_duration
        sunset_start  == t.sunset - transition_duration
        sunset_end    == t.sunset + transition_duration
    IN  \A f \in factor : OrdinaryDay =>
            /\ now = sunrise_start => Close(f, 0)
            /\ now = sunrise_end => Close(f, SunriseCurve(sunrise_end, sunrise_start))
            /\ now = sunset_start =>
                    Close(f, DayCurve(sunset_start, sunrise_end,
                                      sunset_start - sunrise_end))
            /\ now = sunset_end => Close(f, SunsetCurve(sunset_end, sunset_start))

-----------------------------------------------------------------------------
(* Claims about forwarded commands *)

\* The forwarded calls, as a set
Forwarded == Range(forwarded)

\* The command carries an explicit color temperature, under either key
ExplicitColorTemp(data) == data.kelvin # {} \/ data.color_temp_kelvin # {}

\* C1: in every command forwarded by service interception or by an adaptive
\* light entity's async_turn_on, a brightness or color temperature the caller
\* specified is forwarded unchanged: computed values fill only unspecified fields.
C1_ExplicitValuesWin ==
    \A r \in received :
        r.op \in {"service_call", "entity_turn_on", "adaptive_light_turn_on"} =>
        \A f \in Forwarded :
            /\ r.call.data.brightness # {} =>
                    f.data.brightness = r.call.data.brightness
            /\ ExplicitColorTemp(r.call.data) =>
                    /\ f.data.kelvin = r.call.data.kelvin
                    /\ f.data.color_temp_kelvin = r.call.data.color_temp_kelvin

\* The light is served adaptively on the path the command took, and its
\* settings can be computed
ServedAdaptively(r) ==
    /\ Len(r.call.entity_id) = 1
    /\ ~CorrectionRaises(r.call.entity_id[1])
    /\ \/ /\ r.op = "service_call"
          /\ registry[r.call.service] = "interceptor"
          /\ IsAdaptive(r.call.entity_id[1])
       \/ /\ r.op = "entity_turn_on"
          /\ available[r.call.entity_id[1]]
          /\ adaptive_enabled[r.call.entity_id[1]]

\* C2: a turn-on command with brightness=100 and no color temperature is
\* forwarded with brightness 100 and the light's computed color temperature.
C2_BrightnessOnlyGetsComputedColorTemp ==
    \A r \in received :
        /\ ServedAdaptively(r)
        /\ r.call.service = "light.turn_on"
        /\ r.call.data.brightness = {100}
        /\ ~ExplicitColorTemp(r.call.data)
        => /\ forwarded # <<>>
           /\ \A f \in Forwarded :
                /\ f.data.brightness = {100}
                /\ f.data.kelvin
                     = {CalculateAdaptiveSettings(r.call.entity_id[1]).color_temp_kelvin}

\* The scenario of C2 on the AdaptiveLight entity: brightness 100 and no color
\* temperature are forwarded as brightness 100 and the entity's computed
\* color temperature
LightBrightnessOnlyGetsComputedColorTemp ==
    [][\A r \in received' \ received :
          /\ r.op = "adaptive_light_turn_on" /\ ~r.raised
          /\ r.call.data.brightness = {100}
          /\ ~ExplicitColorTemp(r.call.data)
          => /\ forwarded' # <<>>
             /\ \A f \in Forwarded' :
                  /\ f.data.brightness = {100}
                  /\ f.data.color_temp_kelvin
                       = {AdaptiveLightColorTemp(adaptive_light,
                                                 SunPositionFactor(now, sun_times))}]_vars

Intercepted(r) ==
    /\ r.op = "service_call"
    /\ registry[r.call.service] = "interceptor"
    /\ AdaptiveEntities(r.call) # <<>>

\* The split of C6 for the command of r: one call per adaptive id with that
\* light's computed settings, one pass-through call with all other ids and the
\* original data if there are any, and every id in exactly one call
SplitAsSpecified(r) ==
    LET adaptive == Range(AdaptiveEntities(r.call))
        others == Range(r.call.entity_id) \ adaptive
        Adaptive(i) == /\ Len(forwarded[i].entity_id) = 1
                       /\ forwarded[i].entity_id[1] \in adaptive
        own == {i \in 1..Len(forwarded) : Adaptive(i)}
        pass == {i \in 1..Len(forwarded) : ~Adaptive(i)}
    IN  /\ Cardinality(own) = Cardinality(adaptive)
        /\ \A i \in own :
              /\ ~CorrectionRaises(forwarded[i].entity_id[1])
              /\ forwarded[i].data
                   = UpdateWithSettings(r.call.data,
                        CalculateAdaptiveSettings(forwarded[i].entity_id[1]))
        /\ Cardinality(pass) = IF others = {} THEN 0 ELSE 1
        /\ \A i \in pass : /\ Range(forwarded[i].entity_id) = others
                            /\ forwarded[i].data = r.call.data
        /\ \A e \in Range(r.call.entity_id) :
              Cardinality({i \in 1..Len(forwarded) :
                              e \in Range(forwarded[i].entity_id)}) = 1

Disabled(e) ==
    /\ e \in ConfiguredLights
    /\ ~lights[e].enabled \/ ~adaptive_enabled[e]

\* No computed value was added to the data of the received command
AsReceived(f, r) == f.data = r.call.data

\* C7: a command for an administratively disabled light is forwarded exactly
\* as received, with no computed brightness, color temperature or transition
\* added, by service interception, by the entity's async_turn_on and by the
\* apply_adaptive_settings service.
C7_DisabledLightPassesThrough ==
    \A r \in received : \A f \in Forwarded :
        (\E e \in Range(f.entity_id) : Disabled(e)) =>
            IF r.op = "apply_adaptive_settings"
            THEN f.data.brightness = {} /\ f.data.kelvin = {}
            ELSE AsReceived(f, r)

\* C8: a transition the caller supplied is preserved in every forwarded
\* command that carries computed brightness / color temperature (intercepted
\* single and batch calls, the apply_adaptive_settings service); the computed
\* 1 second is used only when the caller supplied none.
C8_ExplicitTransitionKept ==
    \A r \in received : \A f \in Forwarded :
        /\ r.call.data.transition # {} => f.data.transition = r.call.data.transition
        /\ r.call.data.transition = {} /\ f.data # r.call.data
               => f.data.transition = {1}

-----------------------------------------------------------------------------
(* Claims about the pieces of the sun curve *)

\* The ends of the daytime piece of the day
SunriseEnd == GetSunTimes(sun_times).sunrise + transition_duration

SunsetStart == GetSunTimes(sun_times).sunset - transition_duration

\* C11: on the daytime piece the factor is 0.5 at sunrise_end, 1.0 at the
\* midpoint of the span (more than 0.8 at 12:00 for sunrise 06:00 and sunset
\* 18:00), and comes back to 0.5 as t approaches sunset_start.
C11_DaytimeArch ==
    \A f \in factor : OrdinaryDay =>
        /\ now = SunriseEnd => Close(f, One \div 2)
        /\ 2 * now = SunriseEnd + SunsetStart => Close(f, One)
        /\ sun_times = {} /\ now = 12 * 60 => f > 800
        /\ now = SunsetStart =>
              Close(DayCurve(SunsetStart, SunriseEnd, SunsetStart - SunriseEnd),
                    One \div 2)

\* The ends of the two transition windows of the day
SunriseStart == GetSunTimes(sun_times).sunrise - transition_duration

SunsetEnd == GetSunTimes(sun_times).sunset + transition_duration

\* The time is strictly before sunrise - 30 min or strictly after sunset + 30 min
DeepNight == now < SunriseStart \/ now > SunsetEnd

\* C12: for every time strictly before sunrise-30min or strictly after
\* sunset+30min the sun factor is exactly 0.0, and with it the base brightness
\* is the configured minimum and the base color temperature is min_color_temp.
C12_DeepNightIsZero ==
    \A f \in factor : DeepNight =>
        /\ f = 0
        /\ GetBrightnessValue(calc, f) = calc.min_brightness
        /\ GetColorTempKelvin(calc, f) = calc.min_color_temp

\* A deep-night time that lies inside the sunset window of a day whose sunset
\* precedes its sunrise, with the fixture's minimum brightness of 10
C12_Witness ==
    /\ factor = {0}
    /\ DeepNight
    /\ SunsetEnd < SunriseStart
    /\ SunsetEnd - 2 * transition_duration <= now /\ now <= SunsetEnd
    /\ calc = FixtureBounds

\* C13: if the astronomical computation fails, the sun times used are sunrise
\* 06:00, sunset 18:00 and noon 12:00 of the input's date, and the caller gets
\* the value computed from them: no exception reaches it.
C13_FallbackSunTimes ==
    sun_times = {} =>
        /\ GetSunTimes(sun_times)
             = [sunrise |-> 6 * 60, sunset |-> 18 * 60, noon |-> 12 * 60]
        /\ \A f \in factor :
              f = SunFactorAt(now, [sunrise |-> 6 * 60, sunset |-> 18 * 60,
                                    noon |-> 12 * 60])

\* astral raised and the factor at 06:00, the middle of the fallback's sunrise
\* window, was returned
C13_Witness ==
    /\ sun_times = {}
    /\ now = 6 * 60
    /\ \E f \in factor : f > 0 /\ f < One

-----------------------------------------------------------------------------
(* Claims about the correction helpers *)

\* clamp(x, lo, hi)
Clamp(x, lo, hi) == IF x < lo THEN lo ELSE IF x > hi THEN hi ELSE x

\* The call recorded is one of the white balance helpers with an offset
WhiteBalanceCall(c) ==
    /\ c.fn \in {"apply_white_balance_correction", "apply_white_balance"}
    /\ c.correction # {}

BrightnessCall(c) ==
    /\ c.fn \in {"apply_brightness_factor", "apply_brightness_correction"}
    /\ c.correction # {}
    /\ c.value # {}

\* C15: the brightness factor correction returns round(base x factor), to the
\* nearest integer, clamped to [1, 255], for every base in 1..255 and every
\* factor: (5, 0.1) gives 1, (200, 2.0) gives 255, (128, 1.0) gives 128.
C15_BrightnessRounded ==
    \A c \in corrected : BrightnessCall(c) =>
        \A bf \in c.correction :
            /\ c.value = {ApplyBrightnessFactorRounded(c.base, bf)}
            /\ c.base = 5 /\ bf = 100 => c.value = {1}
            /\ c.base = 200 /\ bf = 2000 => c.value = {255}
            /\ c.base = 128 /\ bf = One => c.value = {128}

-----------------------------------------------------------------------------
(* Claims about calculate_adaptive_settings *)

\* The light and the bounds of the scenario: 2000..6500 K, +100 K, x0.8, and
\* the global brightness range 1..255
ScenarioLight ==
    /\ lights[LightA] = LightConfig(2000, 6500, 100, {800}, TRUE)
    /\ calc = DefaultBounds

\* C16: for that light, at sun factor 1.0 the computed settings are 6500 K and
\* brightness 204, at sun factor 0.0 they are 2100 K and brightness 1;
\* transition is 1 in both.
C16_ScenarioValues ==
    \A s \in settings : s.entity_id = LightA /\ ScenarioLight =>
        /\ SunPositionFactor(now, sun_times) = One =>
              s.value = {[brightness |-> 204, color_temp_kelvin |-> 6500,
                          transition |-> 1]}
        /\ SunPositionFactor(now, sun_times) = 0 =>
              s.value = {[brightness |-> 1, color_temp_kelvin |-> 2100,
                          transition |-> 1]}

\* The settings of the scenario's light were computed at sunset_start, where
\* the sun factor is 1.0
C16_Witness ==
    /\ ScenarioLight
    /\ now = SunsetStart
    /\ SunPositionFactor(now, sun_times) = One
    /\ \E s \in settings : s.entity_id = LightA /\ s.value # {}

\* The settings of the scenario's light were computed at sun factor 0.0
C16_WitnessNight ==
    /\ ScenarioLight
    /\ SunPositionFactor(now, sun_times) = 0
    /\ \E s \in settings : s.entity_id = LightA /\ s.value # {}

-----------------------------------------------------------------------------
(* Claims about the validation pass *)

\* The corrections of the light are outside the ranges the validation tests:
\* an offset outside -1000..1000, a brightness factor outside 0.1..2.0
OutOfRange(e) ==
    \/ lights[e].white_balance_offset < -1000
    \/ lights[e].white_balance_offset > 1000
    \/ \E bf \in lights[e].brightness_factor : bf < 100 \/ bf > 2000

\* C18: the validation call reports every configured light whose corrections
\* are out of range; with two or more offending lights all of them are
\* reported: it does not stop at the first.
C18_ReportsEveryOffender ==
    \A v \in validation : ~v.raised =>
        v.reported = {e \in ConfiguredLights : OutOfRange(e)}

\* The correction breaks the invariant of a light's record: min_color_temp
\* not below max_color_temp, a bound outside 1000..10000, or a brightness
\* factor that is not positive
BreaksInvariant(e) ==
    \/ lights[e].min_color_temp >= lights[e].max_color_temp
    \/ lights[e].min_color_temp < 1000 \/ lights[e].min_color_temp > 10000
    \/ lights[e].max_color_temp < 1000 \/ lights[e].max_color_temp > 10000
    \/ \E bf \in lights[e].brightness_factor : bf <= 0

\* C19: a correction with min_color_temp >= max_color_temp, a color
\* temperature bound outside [1000, 10000] or brightness_factor <= 0 is
\* detected by the validation pass: the configuration is not reported valid.
C19_InvariantBreachDetected ==
    \A v \in validation :
        ~v.raised /\ (\E e \in ConfiguredLights : BreaksInvariant(e))
            => v.valid = {FALSE}

\* C20: calculate_adaptive_settings and the correction helpers it calls leave
\* the per-light configuration table and the global bounds unchanged, for any
\* light id and any sequence of calls.
C20_ConfigurationUntouched ==
    [][settings' # settings => lights' = lights /\ calc' = calc]_vars

\* Settings were computed for an unconfigured light and then for the living
\* room, whose offset of 5000 K was cut by the fixture's bounds
C20_Witness ==
    /\ calc = FixtureBounds
    /\ lights[LightA].white_balance_offset = 5000
    /\ \E s, t \in settings :
          /\ s.call = 1 /\ s.entity_id = LightC
          /\ t.call = 2 /\ t.entity_id = LightA
          /\ \E v \in t.value : v.color_temp_kelvin = calc.max_color_temp

-----------------------------------------------------------------------------
(* Claims about the AdaptiveLight entity's settings *)

\* The brightness and color temperature an AdaptiveLight computes from the
\* corrections c at the current time
ComputedFrom(c) ==
    LET f == SunPositionFactor(now, sun_times)
    IN  [brightness |-> AdaptiveLightBrightness(c, f),
         color_temp |-> AdaptiveLightColorTemp(c, f)]

\* The complete records a command may see: the corrections the entity was
\* built with when nothing was updated, otherwise the corrections before the
\* last update and the ones that update asked for
CompleteRecords ==
    IF updated = {} THEN {Corrections(adaptive_light)}
    ELSE UNION {{u.old, u.new} : u \in updated}

\* C21: when a light's corrections are replaced while commands are processed,
\* every computation uses the complete old or the complete new record: the
\* brightness and the color temperature a turn-on without explicit values
\* sends to its target are both computed from one of these records, never the
\* offset of one with the factor of the other.
C21_WholeRecordObserved ==
    [][\A r \in received' \ received :
          /\ r.op = "adaptive_light_turn_on" /\ ~r.raised
          /\ r.call.data.brightness = {}
          /\ r.call.data.color_temp_kelvin = {}
          => \E c \in CompleteRecords :
                /\ Len(forwarded') = 1
                /\ forwarded'[1].data.brightness = {ComputedFrom(c).brightness}
                /\ forwarded'[1].data.color_temp_kelvin
                     = {ComputedFrom(c).color_temp}]_vars

\* A turn-on at 06:00 after an update that replaced offset 0 and factor 1.0 by
\* offset 100 and factor 10.0: it sends the values of the new record, which
\* differ in both from those of the old record
C21_Witness ==
    /\ now = 6 * 60
    /\ \E u \in updated :
          /\ u.old = [white_balance_offset |-> 0, brightness_factor |-> One]
          /\ u.new = [white_balance_offset |-> 100, brightness_factor |-> 10 * One]
          /\ ComputedFrom(u.new).brightness # ComputedFrom(u.old).brightness
          /\ ComputedFrom(u.new).color_temp # ComputedFrom(u.old).color_temp
          /\ Len(forwarded) = 1
          /\ forwarded[1].data.brightness = {ComputedFrom(u.new).brightness}
          /\ forwarded[1].data.color_temp_kelvin = {ComputedFrom(u.new).color_temp}
    /\ \E r \in received : r.op = "adaptive_light_turn_on" /\ ~r.raised

-----------------------------------------------------------------------------
(* Claims about the white-balance test *)

\* What the target of the white-balance test r must be sent: one call, whose
\* only color temperature is the computed one plus the test offset
TestSendsComputedPlusOffset(r, calls) ==
    /\ Len(calls) = 1
    /\ calls[1].entity_id = r.call.entity_id
    /\ calls[1].data.color_temp_kelvin
         = {CalculateAdaptiveSettings(r.call.entity_id[1]).color_temp_kelvin
              + r.white_balance_offset}
    /\ calls[1].data.kelvin = {}

\* C22: the white-balance test sends the target a color temperature equal to
\* the currently computed color_temp_kelvin plus the supplied test offset,
\* and leaves the manager's stored per-light corrections unchanged.
C22_TestWhiteBalancePreview ==
    [][\A r \in received' \ received :
          r.op = "test_white_balance" /\ ~r.raised
          => /\ TestSendsComputedPlusOffset(r, forwarded')
             /\ lights' = lights]_vars

\* The same with the light services not intercepted
C22_PreviewWithoutInterception ==
    [][\A r \in received' \ received :
          /\ r.op = "test_white_balance" /\ ~r.raised
          /\ ~interception_enabled
          => /\ TestSendsComputedPlusOffset(r, forwarded')
             /\ lights' = lights]_vars

\* A white-balance test with offset 500 that reached its target unintercepted
C22_WitnessWithoutInterception ==
    /\ ~interception_enabled
    /\ \E r \in received :
          /\ r.op = "test_white_balance" /\ ~r.raised
          /\ r.white_balance_offset = 500
          /\ TestSendsComputedPlusOffset(r, forwarded)

-----------------------------------------------------------------------------
(* Claims about lights absent from the configuration *)

\* The base values of the calculator at the current time, uncorrected
BaseSettings ==
    LET f == SunPositionFactor(now, sun_times)
    IN  AdaptiveSettings(GetBrightnessValue(calc, f), GetColorTempKelvin(calc, f))

\* C23: for a light id absent from the configuration table,
\* get_light_corrections reports offset 0, factor 1.0 and enabled False, the
\* interceptor's adaptive_entities leaves the light out, and
\* calculate_adaptive_settings returns the uncorrected base brightness and
\* base color temperature.
C23_AbsentLightDefaults ==
    \A e \in LightIds \ ConfiguredLights :
        /\ \A c \in corrected :
              c.fn = "get_light_corrections" /\ c.entity_id = {e}
              => c.value = {[white_balance_offset |-> 0,
                             brightness_factor |-> {One}, enabled |-> FALSE]}
        /\ AdaptiveEntities(ServiceCall("light.turn_on", <<e>>,
                                        CallData({}, {}, {}, {}))) = <<>>
        /\ \A s \in settings : s.entity_id = e => s.value = {BaseSettings}

\* Both calls made for the unconfigured kitchen light, at a time and with
\* bounds where the configured living room gets other values than the base
C23_Witness ==
    /\ LightC \notin ConfiguredLights
    /\ \E c \in corrected :
          c.fn = "get_light_corrections" /\ c.entity_id = {LightC}
    /\ \E s \in settings : s.entity_id = LightC /\ s.value = {BaseSettings}
    /\ ~CorrectionRaises(LightA)
    /\ CalculateAdaptiveSettings(LightA).brightness # BaseSettings.brightness
    /\ CalculateAdaptiveSettings(LightA).color_temp_kelvin
         # BaseSettings.color_temp_kelvin

-----------------------------------------------------------------------------
(* Claims about the manager's white-balance ceiling *)

\* C24: apply_white_balance clamps the corrected temperature to a ceiling of
\* 10000 K: for a configured light with offset +100 and base 9950 K, in a
\* manager whose global range is 2000-6500 K, the result is 10000.
C24_CeilingTenThousand ==
    \A c \in corrected :
        /\ c.fn = "apply_white_balance"
        /\ c.entity_id \subseteq ConfiguredLights
        /\ c.correction = {100}
        /\ c.base = 9950
        /\ calc.min_color_temp = 2000 /\ calc.max_color_temp = 6500
        => c.value = {10000}

\* What the call of C24 returns: the maximum of the manager's global range
C24_CeilingIsGlobalMaximum ==
    \A c \in corrected :
        /\ c.fn = "apply_white_balance"
        /\ c.entity_id \subseteq ConfiguredLights
        /\ c.correction = {100}
        /\ c.base = 9950
        => c.value = {calc.max_color_temp}

-----------------------------------------------------------------------------
(* Claims about enabling and disabling the interception *)

\* The manager's calls on record, by name
ManagerCalls(op) == {r \in received : r.op = op}

\* C25: enable_interception stores the original light.turn_on and
\* light.toggle handlers, installs the interceptors and sets the flag; a
\* following disable_interception re-registers exactly the stored handlers,
\* empties the stored-handler table and clears the flag; enabling while
\* enabled or disabling while disabled changes nothing.  (A call whose
\* registry access fails is not covered by the sentence.)
C25_EnableDisableRoundTrip ==
    /\ \A r \in ManagerCalls("enable_interception") :
          IF r.before.interception_enabled THEN ManagerState = r.before
          ELSE ~r.failed =>
                 /\ original_handlers = [s \in Services |-> r.before.registry[s]]
                 /\ registry = [s \in Services |-> "interceptor"]
                 /\ interception_enabled
    /\ \A r \in ManagerCalls("disable_interception") :
          IF ~r.before.interception_enabled THEN ManagerState = r.before
          ELSE ~r.failed =>
                 /\ registry = [s \in Services |-> r.before.original_handlers[s]]
                 /\ original_handlers = <<>>
                 /\ ~interception_enabled
    /\ interception_enabled =>
          original_handlers = [s \in Services |-> LightPlatformHandler(s)]

\* A disable_interception that found the interception enabled: the light
\* platform's two handlers are registered again, each under its own service
C25_Witness ==
    /\ \E r \in ManagerCalls("disable_interception") :
          /\ r.before.interception_enabled /\ ~r.failed
          /\ r.before.original_handlers
               = [s \in Services |-> LightPlatformHandler(s)]
    /\ registry = [s \in Services |-> LightPlatformHandler(s)]
    /\ original_handlers = <<>>
    /\ ~interception_enabled

-----------------------------------------------------------------------------
(* Claims about the switch *)

\* An adaptive mechanism is active: the interception is enabled, or at least
\* one adaptive light entity counts as enabled (is available and has its
\* adaptive functionality enabled)
MechanismActive ==
    interception_enabled \/ EnabledCount(adaptive_enabled) > 0

\* The switch's operations on record, by name
SwitchCalls(op) == {r \in received : r.op = op}

\* After async_turn_on: on iff a mechanism is active, off if enabling raised
TurnOnReflectsState ==
    \A r \in SwitchCalls("switch_turn_on") :
        IF r.raised THEN ~switch.is_on
        ELSE switch.is_on <=> MechanismActive

C26_WitnessTurnOnInactive ==
    /\ \E r \in SwitchCalls("switch_turn_on") : ~r.raised /\ r.was_on
    /\ ~MechanismActive
    /\ ~switch.is_on

\* A turn-off whose interception failed to stop: the switch keeps reporting on
C26_WitnessTurnOffKept ==
    /\ \E r \in SwitchCalls("switch_turn_off") : ~r.raised /\ r.was_on
    /\ MechanismActive
    /\ switch.is_on

\* How often the operation r invoked the manager's method
Invocations(r, method) ==
    Cardinality({i \in 1..Len(r.invoked) : r.invoked[i] = method})

\* C27: when the switch entity is added with a restored previous state of on,
\* enable_interception is invoked exactly once and the switch reports on; if
\* that invocation raises, the switch reports off; with no previous state or
\* a previous state of off, enable_interception is not invoked and the switch
\* reports off.
C27_RestoredState ==
    \A r \in SwitchCalls("switch_added") :
        IF r.last_state = {"on"}
        THEN /\ Invocations(r, "enable_interception") = 1
             /\ switch.is_on <=> ~r.raised
        ELSE /\ Invocations(r, "enable_interception") = 0
             /\ ~switch.is_on

\* The switch added with a previous state of on, the interception started
C27_Witness ==
    /\ \E r \in SwitchCalls("switch_added") : r.last_state = {"on"} /\ ~r.raised
    /\ interception_enabled
    /\ switch.is_on

\* The switch added with a previous state of on, enable_interception raising
C27_WitnessRaised ==
    /\ \E r \in SwitchCalls("switch_added") : r.last_state = {"on"} /\ r.raised
    /\ ~switch.is_on

\* C28: on removal of the switch entity, disable_interception is invoked
\* (once) if and only if the switch is on at that moment, and a failure of
\* that cleanup does not propagate to the caller.
C28_CleanupOnRemoval ==
    \A r \in SwitchCalls("switch_remove") :
        /\ Invocations(r, "disable_interception") = (IF r.was_on THEN 1 ELSE 0)
        /\ ~r.raised

\* The switch removed while on, the cleanup failing: the interception stays
\* enabled and the removal returns
C28_Witness ==
    /\ \E r \in SwitchCalls("switch_remove") :
          r.was_on /\ r.cleanup_failed /\ ~r.raised
    /\ switch.stage = "removed"
    /\ interception_enabled

\* The switch removed while off: nothing is invoked
C28_WitnessOff ==
    /\ \E r \in SwitchCalls("switch_remove") : ~r.was_on /\ r.invoked = <<>>
    /\ switch.stage = "removed"

-----------------------------------------------------------------------------
(* Claims about the config entries *)

\* The records of a finished async_setup_entry, called by the host or by
\* async_reload_entry, that failed
FailedSetups ==
    {r \in received : r.op \in {"setup_entry", "reload_entry"} /\ r.outcome # "ok"}

C29_WitnessFresh ==
    \E r \in FailedSetups :
        /\ r.op = "setup_entry"
        /\ r.outcome = "setup_false"
        /\ r.entry \notin EntryIds(HostState)

\* A setup that stored the entry's data (the entry had none) and then failed
\* forwarding to the platforms: the data is gone
C29_WitnessForwardRaised ==
    \E r \in FailedSetups :
        /\ r.outcome = "forward_raises"
        /\ r.raised = {"ConfigEntryNotReady"}
        /\ r.entry \notin EntryIds(HostState)
        /\ services_registered

\* The records of a finished async_unload_entry
Unloads == {r \in received : r.op = "unload_entry"}

C30_WitnessUnloaded ==
    \E r \in Unloads :
        /\ r.platforms = "ok"
        /\ r.had_data
        /\ r.result = TRUE
        /\ r.entry \notin EntryIds(HostState)

\* The platforms of an entry with data did not unload: False, data kept
C30_WitnessKept ==
    \E r \in Unloads :
        /\ r.platforms = "not_ok"
        /\ r.had_data
        /\ r.result = FALSE
        /\ r.entry \in EntryIds(HostState)

\* C31: async_unload_entry returns True when the platforms unloaded although
\* hass.data has no key for the domain (no data was ever stored).
C31_UnloadWithoutDomainReturnsTrue ==
    \A r \in Unloads :
        (r.platforms = "ok" /\ hass_data = {}) => r.result = TRUE

-----------------------------------------------------------------------------
(* Claims about the registry *)

\* The light platform's own handlers are the registered ones
OriginalHandlersRegistered ==
    registry = [s \in Services |-> LightPlatformHandler(s)]

\* C32: whenever is_interception_enabled is False, the registered
\* light.turn_on and light.toggle handlers are the original ones, also after
\* an enable_interception that failed when it had already replaced a handler.
C32_FailedEnableRestoresHandlers ==
    ~interception_enabled => OriginalHandlersRegistered

\* What holds instead: whenever is_interception_enabled is True, each service
\* that is registered has the interceptor as its handler and the handler it
\* replaced is stored
C32_EnabledMeansIntercepted ==
    interception_enabled =>
        \A s \in Services :
            registry[s] # "absent" =>
                /\ registry[s] = "interceptor"
                /\ s \in DOMAIN original_handlers

\* The case C32 names: registering the light.toggle interceptor raised after
\* light.turn_on had been swapped; the registered light.turn_on handler is the
\* original one afterwards
C32_ToggleFailureRestoresTurnOn ==
    \A r \in received :
        (/\ r.op = "enable_interception"
         /\ r.failed
         /\ r.failure = [service |-> "light.toggle", step |-> "register"]
         /\ r.before.registry["light.turn_on"] = "platform_turn_on")
        => registry["light.turn_on"] = "platform_turn_on"

\* C33: with two managers on one registry, once every manager that enabled
\* interception has disabled it again, in any order, the registered
\* light.turn_on handler is the light platform's and no interceptor is
\* installed.
C33_AllDisabledRestoresOriginal ==
    (~interception_enabled /\ ~second.interception_enabled)
        => /\ registry["light.turn_on"] = "platform_turn_on"
           /\ \A s \in Services : ~IsInterceptor(registry[s])

\* What holds instead: the manager that disables last does restore the light
\* platform's handlers when it was also the one that enabled first (its stored
\* handlers are the platform's)
C33_NestedOrderRestores ==
    (/\ ~interception_enabled
     /\ ~second.interception_enabled
     /\ \A s \in Services : ~IsInterceptor(registry[s]))
        => OriginalHandlersRegistered

\* Both managers have disabled interception, the first manager's interceptor
\* is still registered and a command was dropped by it
C33_DroppedAfterAllDisabled ==
    \E r \in received :
        /\ r.op = "service_call"
        /\ r.handler = "interceptor"
        /\ ~interception_enabled
        /\ ~second.interception_enabled
        /\ forwarded = <<>>

\* Each manager has stored the other's interceptor and a command was given
C33_HandlersLoopReached ==
    \E r \in received : r.op = "service_call" /\ r.loops

-----------------------------------------------------------------------------
(* Claims about commands processed while the interception changes *)

\* The records of the light commands given
LightCommands == {r \in received : r.op = "service_call"}

\* C34: with one manager and no registry errors, however enable_interception,
\* disable_interception and incoming light.turn_on / light.toggle commands
\* interleave, every command reaches the light platform's handler at least
\* once, directly or through the interceptor, and the interceptor never runs
\* without a stored original handler, dropping the command.
C34_EveryCommandReachesHandler ==
    /\ \A r \in LightCommands : ~r.dropped /\ Len(forwarded) >= 1
    /\ \A s \in Services :
          registry[s] = "interceptor" => s \in DOMAIN original_handlers

\* A command for several lights went through the interceptor, the
\* interception was disabled while one of its calls was awaited, no
\* computation raised, and the calls that remained still reached the light
\* platform's handler
C34_Witness ==
    \E r \in LightCommands :
        /\ r.handler = "interceptor"
        /\ r.interleaved
        /\ FailingPositions(r.call) = {}
        /\ ~interception_enabled
        /\ original_handlers = <<>>
        /\ pending = {}
        /\ Len(forwarded) >= 2

\* As C34_Witness, for a command whose second computation raised: the except
\* branch found no stored handler, and the first call had been handed over
C34_WitnessFallbackSkipped ==
    \E r \in LightCommands :
        /\ r.handler = "interceptor"
        /\ r.interleaved
        /\ FailingPositions(r.call) # {}
        /\ ~interception_enabled
        /\ pending = {}
        /\ Len(forwarded) = 1
        /\ forwarded[1] # r.call

-----------------------------------------------------------------------------
(* Claims about the error fallback of a command for several lights *)

\* The forwarded calls of the command in progress that target the light
CallsTargeting(entity_id) ==
    {i \in 1..Len(forwarded) : entity_id \in Range(forwarded[i].entity_id)}

\* C35: while one intercepted command for several lights is processed, each
\* targeted light gets at most one forwarded call, also when the computation
\* raises for a later adaptive light after calls for earlier lights were
\* forwarded.
C35_AtMostOneCallPerLight ==
    \A r \in received :
        (r.op = "service_call" /\ registry[r.call.service] = "interceptor")
            => \A e \in Range(r.call.entity_id) :
                   Cardinality(CallsTargeting(e)) <= 1

\* What holds instead: a light gets a second call only from the except branch,
\* and then the last call is the original command for all its lights
C35_SecondCallIsFallback ==
    \A r \in received :
        (r.op = "service_call" /\ registry[r.call.service] = "interceptor")
            => \A e \in Range(r.call.entity_id) :
                   /\ Cardinality(CallsTargeting(e)) <= 2
                   /\ Cardinality(CallsTargeting(e)) = 2
                        => /\ r.raised
                           /\ forwarded[Len(forwarded)] = r.call

\* C36: after the switch's async_added_to_hass has completed, is_on implies
\* that the manager's is_interception_enabled is True, also when
\* enable_interception failed internally (it logs its errors and does not
\* raise).
C36_OnImpliesIntercepting ==
    \A r \in SwitchCalls("switch_added") :
        switch.is_on => interception_enabled

-----------------------------------------------------------------------------
(* Claims about the AdaptiveLight entity and its target *)

\* What the AdaptiveLight reports of itself
ReportedState(al) ==
    [is_on |-> al.is_on, brightness |-> al.brightness,
     color_temp |-> al.color_temp]

\* C37: when the service call to the target light fails during
\* AdaptiveLight.async_turn_on or async_turn_off, the exception propagates and
\* the entity's is_on, brightness and color temperature are what they were
\* before the call.
C37_FailedCallLeavesState ==
    [][\A r \in received' \ received :
          (r.op \in {"adaptive_light_turn_on", "adaptive_light_turn_off"}
           /\ r.raised)
          => ReportedState(adaptive_light') = ReportedState(adaptive_light)]_vars

\* The turn-ons of the AdaptiveLight, just processed, that carried neither a
\* brightness nor a color temperature and whose call to the target returned
PlainTurnOns ==
    {r \in received' \ received :
        /\ r.op = "adaptive_light_turn_on"
        /\ ~r.raised
        /\ r.call.data.brightness = {}
        /\ ~ExplicitColorTemp(r.call.data)}

\* What TimeBasedCalculator.get_adaptive_settings returns, with the default
\* bounds, for the clock's sun factor and the corrections of the AdaptiveLight
CalculatorSettings(al) ==
    GetAdaptiveSettings(DefaultBounds, SunPositionFactor(now, sun_times),
                        al.white_balance_offset, al.brightness_factor)

\* C38: for the same sun factor, white-balance offset and brightness factor
\* (default bounds 1-255 and 2000-6500 K), AdaptiveLight.async_turn_on without
\* explicit values sends the brightness and the color temperature that
\* TimeBasedCalculator.get_adaptive_settings returns.
C38_SameValuesAsCalculator ==
    [][\A r \in PlainTurnOns :
          /\ Len(forwarded') = 1
          /\ forwarded'[1].data.brightness
                = {CalculatorSettings(adaptive_light').brightness}
          /\ forwarded'[1].data.color_temp_kelvin
                = {CalculatorSettings(adaptive_light').color_temp_kelvin}]_vars

\* What holds instead: the color temperature sent is the calculator's
C38_SameColorTempAsCalculator ==
    [][\A r \in PlainTurnOns :
          /\ Len(forwarded') = 1
          /\ forwarded'[1].data.color_temp_kelvin
                = {CalculatorSettings(adaptive_light').color_temp_kelvin}]_vars

-----------------------------------------------------------------------------
(* Claims about the branches of the sun position curve *)

\* The daytime span sunset_start - sunrise_end of the times in force
DayDuration ==
    LET times == GetSunTimes(sun_times)
    IN  (times.sunset - transition_duration)
          - (times.sunrise + transition_duration)

\* C39: in _get_sun_position_factor the result 1.0 of the degenerate span is
\* never returned: whenever the daytime branch is taken the span
\* sunset_start - sunrise_end is strictly positive, and for a span that is zero
\* or negative every time of day is handled by the deep-night test or by one of
\* the two transition branches.
C39_DegenerateBranchUnreachable ==
    factor # {} =>
        LET branch == SunBranchAt(now, GetSunTimes(sun_times))
        IN  /\ branch # "degenerate_day"
            /\ branch = "day" => DayDuration > 0
            /\ DayDuration <= 0 => branch \in {"deep_night", "sunrise", "sunset"}

\* The factor was computed for a time between the starts of the two
\* transitions of a day whose span is zero: the windows touch at this minute,
\* and the sunset branch handles it
C39_Witness ==
    /\ factor # {}
    /\ DayDuration = 0
    /\ now = GetSunTimes(sun_times).sunrise + transition_duration
    /\ SunBranchAt(now, GetSunTimes(sun_times)) = "sunset"

\* The factor was computed inside overlapping windows (negative span), by the
\* sunrise branch, at a time past the start of the sunset transition
C39_WitnessOverlap ==
    /\ factor # {}
    /\ DayDuration < 0
    /\ now >= GetSunTimes(sun_times).sunset - transition_duration
    /\ SunBranchAt(now, GetSunTimes(sun_times)) = "sunrise"

====
